---- MODULE Spec2Model ----
(***************************************************************************)
(* Model of the Navi regulatory comment analysis core:                     *)
(*   backend/ai_comment_analyzer.py      GPTOSSAnalyzer                    *)
(*   backend/gpt_oss_tools.py            GPTOSSToolInterface               *)
(*   backend/regulations_gov_api.py      RegulationsGovAPI                 *)
(*   backend/ollama_comment_analyzer.py  OllamaCommentAnalyzer             *)
(* Python strings are TLA+ strings; positions handed to the Python-named   *)
(* helpers are 0-based as in the source.  Floats that the code produces    *)
(* by base + offset are kept in hundredths; quotients are kept as          *)
(* [num, den] pairs.                                                       *)
(***************************************************************************)
EXTENDS Integers, Sequences, FiniteSets, TLC

VARIABLES
    comments,      \* the comment list handed to analyze_comments_advanced
    analysis,      \* the analyses returned for it so far
    tool_name,     \* execute_tool: name of the last tool invoked
    parameters,    \* execute_tool: parameters of the last invocation
    tool_result,   \* execute_tool: mapping returned by the last invocation
    requests,      \* requests the last invocation sent to regulations.gov
    service,       \* how regulations.gov answers each endpoint
    hash_seed,     \* string hash seed of the interpreter process
    raw_response,  \* reply text of the language model
    parsed,        \* outcomes of _parse_analysis_response on the reply
    clock,         \* reading of datetime.now(): invocations made so far
    tables,        \* keyword tables the analyzer instance was constructed with
    in_flight,     \* per caller: the execute_tool invocation it is inside of
    completed,     \* execute_tool invocations that returned, in order of return
    generation,    \* the endpoint configuration and how the endpoint answers a POST
    posts,         \* POSTs sent to the generation endpoint so far
    document_result \* results analyze_document_comments returned so far

vars == <<comments, analysis, tool_name, parameters, tool_result, requests,
          service, hash_seed, clock, raw_response, parsed, tables, in_flight,
          completed, generation, posts, document_result>>

analyzerVars == <<comments, analysis>>

toolVars == <<tool_name, parameters, tool_result, requests, service, clock>>

processVars == <<hash_seed>>

bridgeVars == <<raw_response, parsed>>

sharedVars == <<tables, in_flight, completed>>

generationVars == <<generation, posts, document_result>>

\* Python None
None == "<None>"

Truthy(v) == v # None /\ v # ""

Min(a, b) == IF a <= b THEN a ELSE b

\* {} (a dict without keys)
EmptyDict == [k \in {} |-> None]

\* d.get(key, default)
Get(d, key, default) == IF key \in DOMAIN d THEN d[key] ELSE default

\* outcome of a call: a returned value or a raised exception, with the
\* requests sent on the way
Return(v, sent) == [raised |-> FALSE, value |-> v, sent |-> sent]

Raise(message, sent) == [raised |-> TRUE, error |-> message, sent |-> sent]

(***************************************************************************)
(* Python str operations                                                   *)
(***************************************************************************)
UpperChars == "ABCDEFGHIJKLMNOPQRSTUVWXYZ"

LowerChars == "abcdefghijklmnopqrstuvwxyz"

\* s[a:b] for 0 <= a, b (b clipped to len(s))
Slice(s, a, b) == SubSeq(s, a + 1, Min(b, Len(s)))

CharAt(s, i) == SubSeq(s, i + 1, i + 1)

\* 0-based positions at which sub occurs in s
Occurrences(s, sub) ==
    {i \in 0..(Len(s) - Len(sub)) : SubSeq(s, i + 1, i + Len(sub)) = sub}

SetMin(S) == CHOOSE x \in S : \A y \in S : x <= y

\* str.find(sub, start): lowest index >= start where sub occurs, or -1
Find(s, sub, start) ==
    LET occ == {i \in Occurrences(s, sub) : i >= start}
    IN IF occ = {} THEN -1 ELSE SetMin(occ)

\* sub in s
Contains(s, sub) == Occurrences(s, sub) # {}

\* str.count(sub): number of non-overlapping occurrences, left to right
RECURSIVE CountFrom(_, _, _)
CountFrom(occ, width, start) ==
    LET rest == {i \in occ : i >= start}
    IN IF rest = {} THEN 0
       ELSE 1 + CountFrom(rest, width, SetMin(rest) + width)

Count(s, sub) == CountFrom(Occurrences(s, sub), Len(sub), 0)

LowerTable ==
    [c \in {CharAt(UpperChars, i) : i \in 0..25} |->
        CharAt(LowerChars, CHOOSE i \in 0..25 : CharAt(UpperChars, i) = c)]

LowerChar(c) == IF c \in DOMAIN LowerTable THEN LowerTable[c] ELSE c

\* "".join(parts), by halves
RECURSIVE ConcatRange(_, _, _)
ConcatRange(parts, lo, hi) ==
    IF lo > hi THEN ""
    ELSE IF lo = hi THEN parts[lo]
    ELSE LET mid == (lo + hi) \div 2
         IN ConcatRange(parts, lo, mid) \o ConcatRange(parts, mid + 1, hi)

ConcatAll(parts) == ConcatRange(parts, 1, Len(parts))

\* str.lower()
Lower(s) == ConcatAll([i \in 1..Len(s) |-> LowerChar(CharAt(s, i - 1))])

UpperTable ==
    [c \in {CharAt(LowerChars, i) : i \in 0..25} |->
        CharAt(UpperChars, CHOOSE i \in 0..25 : CharAt(LowerChars, i) = c)]

UpperChar(c) == IF c \in DOMAIN UpperTable THEN UpperTable[c] ELSE c

IsCased(c) == c \in DOMAIN UpperTable \/ c \in DOMAIN LowerTable

\* str.title(): a cased character is upper-cased after an uncased one (or at
\* the start) and lower-cased after a cased one
Title(s) ==
    ConcatAll([i \in 1..Len(s) |->
        IF i > 1 /\ IsCased(CharAt(s, i - 2))
        THEN LowerChar(CharAt(s, i - 1))
        ELSE UpperChar(CharAt(s, i - 1))])

\* str.replace(old, new) for a one-character old
Replace(s, old, new) ==
    ConcatAll([i \in 1..Len(s) |->
        IF CharAt(s, i - 1) = old THEN new ELSE CharAt(s, i - 1)])

\* str(n) for an int n >= 0
Str(n) == ToString(n)

\* sep.join(parts)
Join(parts, sep) ==
    ConcatAll([i \in 1..(2 * Len(parts) - 1) |->
        IF i % 2 = 1 THEN parts[(i + 1) \div 2] ELSE sep])

\* concatenation of a sequence of sequences
RECURSIVE ConcatSeqs(_)
ConcatSeqs(qs) == IF qs = <<>> THEN <<>> ELSE qs[1] \o ConcatSeqs(Tail(qs))

\* sum(f[i] for i in 1..Len(f))
RECURSIVE SumSeq(_)
SumSeq(q) == IF q = <<>> THEN 0 ELSE q[1] + SumSeq(Tail(q))

\* q[:n]
Take(q, n) == SubSeq(q, 1, Min(n, Len(q)))

(***************************************************************************)
(* GPTOSSAnalyzer._prepare_comment_data                                    *)
(***************************************************************************)
HasText(comment) == Truthy(comment.comment_text)

StakeholderOf(comment) ==
    [name |-> IF Truthy(comment.submitter_name) THEN comment.submitter_name
              ELSE comment.organization_name,
     type |-> IF Truthy(comment.organization_name) THEN "organization"
              ELSE "individual",
     organization |-> comment.organization_name]

_prepare_comment_data(cs) ==
    LET kept == SelectSeq(cs, HasText)
    IN [texts |-> [i \in 1..Len(kept) |-> kept[i].comment_text],
        stakeholders |-> [i \in 1..Len(kept) |-> StakeholderOf(kept[i])],
        dates |-> LET dated == SelectSeq(kept, LAMBDA c : Truthy(c.posted_date))
                  IN [i \in 1..Len(dated) |-> dated[i].posted_date],
        total_comments |-> Len(cs)]

(***************************************************************************)
(* GPTOSSAnalyzer._identify_regulatory_themes                              *)
(***************************************************************************)
theme_patterns ==
    << [name |-> "compliance_burden",
        keywords |-> <<"compliance", "burden", "administrative", "paperwork",
                       "reporting", "recordkeeping", "monitoring",
                       "certification">>],
       [name |-> "economic_impact",
        keywords |-> <<"cost", "economic", "financial", "budget", "expense",
                       "investment", "revenue", "profit", "market",
                       "competition">>],
       [name |-> "environmental_concerns",
        keywords |-> <<"environment", "pollution", "emissions", "waste",
                       "conservation", "sustainability", "climate",
                       "greenhouse", "carbon">>],
       [name |-> "safety_health",
        keywords |-> <<"safety", "health", "risk", "hazard", "protection",
                       "injury", "illness", "exposure", "toxic",
                       "dangerous">>],
       [name |-> "implementation_timeline",
        keywords |-> <<"timeline", "deadline", "implementation",
                       "effective date", "phase", "transition",
                       "grace period", "compliance date">>],
       [name |-> "technical_standards",
        keywords |-> <<"standard", "specification", "requirement", "criteria",
                       "methodology", "procedure", "protocol",
                       "guideline">> ] >>

ThemeNames == [i \in 1..Len(theme_patterns) |-> theme_patterns[i].name]

\* sum(all_text.count(keyword) for keyword in keywords)
KeywordFrequency(all_text, keywords) ==
    SumSeq([k \in 1..Len(keywords) |-> Count(all_text, keywords[k])])

\* min(frequency / len(texts), 1.0) as a quotient
RelevanceScore(frequency, ntexts) ==
    IF frequency >= ntexts THEN [num |-> 1, den |-> 1]
    ELSE [num |-> frequency, den |-> ntexts]

\* a < b on quotients with positive denominators
RatLess(a, b) == a.num * b.den < b.num * a.den

RatEq(a, b) == a.num * b.den = b.num * a.den

\* list.sort(key=..., reverse=True) over <<key, item>> pairs with quotient
\* keys: stable, elements with equal keys keep their order
RECURSIVE InsertDescendingUnstable(_, _)
InsertDescendingUnstable(sorted, x) ==
    IF sorted = <<>> THEN <<x>>
    ELSE IF ~RatLess(x.key, sorted[1].key)
         THEN <<x>> \o sorted
         ELSE <<sorted[1]>> \o InsertDescendingUnstable(Tail(sorted), x)

RECURSIVE InsertDescending(_, _)
InsertDescending(sorted, x) ==
    IF sorted = <<>> THEN <<x>>
    ELSE IF RatLess(sorted[1].key, x.key)
         THEN <<x>> \o sorted
         ELSE <<sorted[1]>> \o InsertDescending(Tail(sorted), x)

RECURSIVE SortDescending(_)
SortDescending(q) ==
    IF q = <<>> THEN <<>>
    ELSE InsertDescending(SortDescending(SubSeq(q, 1, Len(q) - 1)), q[Len(q)])

Items(pairs) == [i \in 1..Len(pairs) |-> pairs[i].item]

ThemeEntry(pattern, all_text, ntexts) ==
    LET entry(frequency) ==
            [theme |-> pattern.name,
             frequency |-> frequency,
             keywords_found |-> SelectSeq(pattern.keywords,
                                          LAMBDA kw : Contains(all_text, kw)),
             relevance_score |-> RelevanceScore(frequency, ntexts)]
    IN entry(KeywordFrequency(all_text, pattern.keywords))

_identify_regulatory_themes(comment_data) ==
    LET sorted(themes) ==
            Take(Items(SortDescending(
                     [i \in 1..Len(themes) |->
                         [key |-> themes[i].relevance_score, item |-> themes[i]]])),
                 5)
        counted(texts, all_text) ==
            sorted(SelectSeq([i \in 1..Len(theme_patterns) |->
                                 ThemeEntry(theme_patterns[i], all_text, Len(texts))],
                             LAMBDA t : t.frequency > 0))
    IN counted(comment_data.texts, Lower(Join(comment_data.texts, " ")))

(***************************************************************************)
(* GPTOSSAnalyzer._calculate_confidence_scores (values in hundredths)      *)
(***************************************************************************)
BaseConfidenceDip(total_comments) ==
    IF total_comments >= 20 THEN 80
    ELSE IF total_comments >= 10 THEN 60
    ELSE IF total_comments > 5 THEN 40
    ELSE 20

BaseConfidence(total_comments) ==
    IF total_comments >= 20 THEN 80
    ELSE IF total_comments >= 10 THEN 60
    ELSE IF total_comments >= 5 THEN 40
    ELSE 20

_calculate_confidence_scores_texts(comment_data) ==
    LET base_confidence == BaseConfidence(Len(comment_data.texts))
    IN [overall_confidence |-> base_confidence,
        key_points_confidence |-> Min(base_confidence + 10, 100),
        sentiment_confidence |-> base_confidence,
        stakeholder_confidence |-> Min(base_confidence + 5, 100),
        theme_confidence |-> Min(base_confidence + 15, 100),
        impact_confidence |-> Min(base_confidence + 10, 100)]

_calculate_confidence_scores(comment_data) ==
    LET base_confidence == BaseConfidence(comment_data.total_comments)
    IN [overall_confidence |-> base_confidence,
        key_points_confidence |-> Min(base_confidence + 10, 100),
        sentiment_confidence |-> base_confidence,
        stakeholder_confidence |-> Min(base_confidence + 5, 100),
        theme_confidence |-> Min(base_confidence + 15, 100),
        impact_confidence |-> Min(base_confidence + 10, 100)]

(***************************************************************************)
(* GPTOSSAnalyzer._assess_regulatory_impacts                               *)
(***************************************************************************)
impact_categories ==
    << [name |-> "industry_impact",
        keywords |-> <<"industry", "business", "company", "firm", "sector",
                       "market", "competition", "innovation", "investment">>],
       [name |-> "consumer_impact",
        keywords |-> <<"consumer", "customer", "public", "user", "end user",
                       "buyer", "purchaser", "beneficiary">>],
       [name |-> "government_impact",
        keywords |-> <<"government", "agency", "federal", "state", "local",
                       "regulatory", "enforcement", "oversight",
                       "compliance">>],
       [name |-> "environmental_impact",
        keywords |-> <<"environment", "ecosystem", "natural", "wildlife",
                       "habitat", "biodiversity", "conservation">>] >>

\* any(keyword in text_lower for keyword in keywords)
AnyKeywordIn(text_lower, keywords) ==
    \E k \in 1..Len(keywords) : Contains(text_lower, keywords[k])

\* indices i (0-based, ascending) of the texts that mention a keyword
RelevantComments(texts, keywords) ==
    LET zero_based(hits) == [j \in 1..Len(hits) |-> hits[j] - 1]
    IN zero_based(SelectSeq([i \in 1..Len(texts) |-> i],
                            LAMBDA i : AnyKeywordIn(Lower(texts[i]), keywords)))

\* as ImpactEntry below, counting the occurrences of the keywords
ImpactEntryOccurrences(category, texts) ==
    LET entry(relevant_comments) ==
            [impact_type |-> category.name,
             mention_count |-> KeywordFrequency(Lower(Join(texts, " ")),
                                                category.keywords),
             affected_comments |-> relevant_comments,
             impact_score |-> [num |-> Len(relevant_comments), den |-> Len(texts)]]
    IN entry(RelevantComments(texts, category.keywords))

ImpactEntry(category, texts) ==
    LET entry(relevant_comments) ==
            [impact_type |-> category.name,
             mention_count |-> Len(relevant_comments),
             affected_comments |-> relevant_comments,
             impact_score |-> [num |-> Len(relevant_comments), den |-> Len(texts)]]
    IN entry(RelevantComments(texts, category.keywords))

_assess_regulatory_impacts(comment_data) ==
    LET texts == comment_data.texts
        entries == [i \in 1..Len(impact_categories) |->
                       ImpactEntry(impact_categories[i], texts)]
    IN SelectSeq(entries, LAMBDA e : e.mention_count > 0)

(***************************************************************************)
(* GPTOSSAnalyzer._analyze_stakeholder_concerns                            *)
(***************************************************************************)
concern_patterns ==
    << [name |-> "cost_concerns",
        keywords |-> <<"expensive", "costly", "burden", "financial impact">>],
       [name |-> "timeline_concerns",
        keywords |-> <<"too fast", "too slow", "deadline", "timeline">>],
       [name |-> "complexity_concerns",
        keywords |-> <<"complex", "complicated", "confusing", "unclear">>],
       [name |-> "feasibility_concerns",
        keywords |-> <<"impossible", "unrealistic", "impractical",
                       "feasible">>] >>

\* f"{concern_type.replace('_', ' ').title()}: {text[:100]}..."
ConcernText(concern_type, text) ==
    Title(Replace(concern_type, "_", " ")) \o ": " \o Slice(text, 0, 100) \o "..."

\* the (text, stakeholder, pattern) matches in loop order
ConcernMatches(texts, stakeholders) ==
    LET concerns(matched) ==
            [n \in 1..Len(matched) |->
                [type |-> stakeholders[matched[n].i].type,
                 concern_text |-> ConcernText(concern_patterns[matched[n].p].name,
                                              texts[matched[n].i])]]
    IN concerns(SelectSeq(
           [n \in 1..(Len(texts) * Len(concern_patterns)) |->
               [i |-> ((n - 1) \div Len(concern_patterns)) + 1,
                p |-> ((n - 1) % Len(concern_patterns)) + 1]],
           LAMBDA m :
               AnyKeywordIn(Lower(texts[m.i]), concern_patterns[m.p].keywords)))

\* append x unless it is already in the list
RECURSIVE AppendUnique(_, _)
AppendUnique(common, todo) ==
    IF todo = <<>> THEN common
    ELSE AppendUnique(IF \E i \in 1..Len(common) : common[i] = todo[1]
                      THEN common ELSE Append(common, todo[1]),
                      Tail(todo))

\* as _analyze_stakeholder_concerns below, with every match added to common
_analyze_stakeholder_concerns_repeating(comment_data) ==
    LET texts_of(ms) == [n \in 1..Len(ms) |-> ms[n].concern_text]
        bucketed(matches) ==
            [organizations |->
                 texts_of(SelectSeq(matches, LAMBDA m : m.type = "organization")),
             individuals |->
                 texts_of(SelectSeq(matches, LAMBDA m : m.type # "organization")),
             common |-> texts_of(matches)]
    IN bucketed(ConcernMatches(comment_data.texts, comment_data.stakeholders))

_analyze_stakeholder_concerns(comment_data) ==
    LET texts_of(ms) == [n \in 1..Len(ms) |-> ms[n].concern_text]
        bucketed(matches) ==
            [organizations |->
                 texts_of(SelectSeq(matches, LAMBDA m : m.type = "organization")),
             individuals |->
                 texts_of(SelectSeq(matches, LAMBDA m : m.type # "organization")),
             common |-> AppendUnique(<<>>, texts_of(matches))]
    IN bucketed(ConcernMatches(comment_data.texts, comment_data.stakeholders))

(***************************************************************************)
(* GPTOSSAnalyzer._perform_basic_analysis and its helpers                  *)
(***************************************************************************)
key_terms ==
    << [term |-> "compliance", weight |-> 3], [term |-> "cost", weight |-> 3],
       [term |-> "burden", weight |-> 2], [term |-> "impact", weight |-> 2],
       [term |-> "implementation", weight |-> 2],
       [term |-> "safety", weight |-> 2], [term |-> "environment", weight |-> 2],
       [term |-> "economic", weight |-> 2], [term |-> "technical", weight |-> 2],
       [term |-> "timeline", weight |-> 2], [term |-> "standard", weight |-> 1],
       [term |-> "requirement", weight |-> 1],
       [term |-> "regulation", weight |-> 1],
       [term |-> "enforcement", weight |-> 1] >>

_extract_key_points(texts) ==
    LET phrased(sorted_terms) ==
            [i \in 1..Len(sorted_terms) |->
                "'" \o sorted_terms[i].item \o "' mentioned "
                    \o Str(sorted_terms[i].key.num) \o " times across comments"]
        scored(present) ==
            phrased(Take(SortDescending(
                [i \in 1..Len(present) |->
                    [key |-> [num |-> present[i].count * present[i].weight,
                              den |-> 1],
                     item |-> present[i].term]]), 5))
        counted(all_text) ==
            scored(SelectSeq([i \in 1..Len(key_terms) |->
                                 [term |-> key_terms[i].term,
                                  count |-> Count(all_text, key_terms[i].term),
                                  weight |-> key_terms[i].weight]],
                             LAMBDA t : t.count > 0))
    IN counted(Lower(Join(texts, " ")))

support_words ==
    <<"support", "agree", "beneficial", "good", "effective", "necessary",
      "important">>

opposition_words ==
    <<"oppose", "concern", "problem", "burden", "costly", "unnecessary",
      "harmful">>

constructive_words ==
    <<"suggest", "recommend", "propose", "modify", "improve", "clarify">>

\* a > b * 1.5
ExceedsOneAndAHalf(a, b) == 2 * a > 3 * b

_identify_perspectives(texts) ==
    LET judged(support_count, opposition_count, constructive_count) ==
            << IF ExceedsOneAndAHalf(support_count, opposition_count)
               THEN "Generally supportive of the proposed regulation"
               ELSE IF ExceedsOneAndAHalf(opposition_count, support_count)
               THEN "Generally concerned about the proposed regulation"
               ELSE "Mixed perspectives with both support and concerns" >>
            \o (IF constructive_count > 0
                THEN <<"Many comments provide constructive suggestions for improvement">>
                ELSE <<>>)
        counted(all_text) ==
            judged(KeywordFrequency(all_text, support_words),
                   KeywordFrequency(all_text, opposition_words),
                   KeywordFrequency(all_text, constructive_words))
    IN counted(Lower(Join(texts, " ")))

positive_words ==
    <<"support", "agree", "beneficial", "good", "effective", "necessary",
      "important", "valuable">>

negative_words ==
    <<"oppose", "concern", "problem", "burden", "costly", "unnecessary",
      "harmful", "difficult">>

_analyze_sentiment(texts) ==
    LET judged(positive_count, negative_count) ==
            IF ExceedsOneAndAHalf(positive_count, negative_count)
            THEN "Predominantly positive sentiment"
            ELSE IF ExceedsOneAndAHalf(negative_count, positive_count)
            THEN "Predominantly negative sentiment"
            ELSE "Mixed sentiment with both support and concerns"
        counted(all_text) ==
            judged(KeywordFrequency(all_text, positive_words),
                   KeywordFrequency(all_text, negative_words))
    IN counted(Lower(Join(texts, " ")))

\* as _categorize_stakeholders below, the types staying in first-seen order
_categorize_stakeholders_first_seen(stakeholders) ==
    LET labelled(types) ==
            [i \in 1..Len(types) |->
                Title(types[i]) \o "s ("
                    \o Str(Cardinality({j \in 1..Len(stakeholders) :
                                           stakeholders[j].type = types[i]}))
                    \o ")"]
    IN labelled(AppendUnique(<<>>, [i \in 1..Len(stakeholders) |->
                                       stakeholders[i].type]))

\* Counter(...).most_common(): types in first-seen order, then a stable
\* sort by count, descending
_categorize_stakeholders(stakeholders) ==
    LET labelled(most_common) ==
            [i \in 1..Len(most_common) |->
                Title(most_common[i].item) \o "s ("
                    \o Str(most_common[i].key.num) \o ")"]
        counted(types) ==
            labelled(SortDescending(
                [i \in 1..Len(types) |->
                    [key |-> [num |-> Cardinality({j \in 1..Len(stakeholders) :
                                           stakeholders[j].type = types[i]}),
                              den |-> 1],
                     item |-> types[i]]]))
    IN counted(AppendUnique(<<>>, [i \in 1..Len(stakeholders) |->
                                      stakeholders[i].type]))

_perform_basic_analysis(comment_data) ==
    [key_points |-> _extract_key_points(comment_data.texts),
     perspectives |-> _identify_perspectives(comment_data.texts),
     sentiment |-> _analyze_sentiment(comment_data.texts),
     stakeholder_types |-> _categorize_stakeholders(comment_data.stakeholders)]

(***************************************************************************)
(* GPTOSSAnalyzer._generate_comprehensive_summary                          *)
(***************************************************************************)
\* as TopImpact below, the last maximal element
TopImpactLast(impact_assessments) ==
    impact_assessments[
        CHOOSE i \in 1..Len(impact_assessments) :
            /\ \A j \in 1..Len(impact_assessments) :
                  ~RatLess(impact_assessments[i].impact_score,
                           impact_assessments[j].impact_score)
            /\ \A j \in (i + 1)..Len(impact_assessments) :
                  RatLess(impact_assessments[j].impact_score,
                          impact_assessments[i].impact_score)]

\* max(impact_assessments, key=impact_score): the first maximal element
TopImpact(impact_assessments) ==
    impact_assessments[
        CHOOSE i \in 1..Len(impact_assessments) :
            /\ \A j \in 1..Len(impact_assessments) :
                  ~RatLess(impact_assessments[i].impact_score,
                           impact_assessments[j].impact_score)
            /\ \A j \in 1..(i - 1) :
                  RatLess(impact_assessments[j].impact_score,
                          impact_assessments[i].impact_score)]

_generate_comprehensive_summary(basic_analysis, regulatory_themes, impact_assessments, stakeholder_concerns, total_comments) ==
    LET summary_parts ==
          << "Analysis of " \o Str(total_comments) \o " public comments reveals:",
             "Overall sentiment: " \o basic_analysis.sentiment >>
          \o (IF basic_analysis.perspectives # <<>>
              THEN <<"Common perspectives: "
                        \o Join(basic_analysis.perspectives, "; ")>>
              ELSE <<>>)
          \o (IF regulatory_themes # <<>>
              THEN <<"Primary regulatory theme: " \o regulatory_themes[1].theme
                        \o " (mentioned " \o Str(regulatory_themes[1].frequency)
                        \o " times)">>
              ELSE <<>>)
          \o (IF impact_assessments # <<>>
              THEN <<"Main impact area: "
                        \o TopImpact(impact_assessments).impact_type
                        \o " (mentioned in "
                        \o Str(TopImpact(impact_assessments).mention_count)
                        \o " comments)">>
              ELSE <<>>)
          \o (IF stakeholder_concerns.common # <<>>
              THEN <<"Common concerns identified: "
                        \o Str(Len(stakeholder_concerns.common))
                        \o " distinct issues">>
              ELSE <<>>)
    IN Join(summary_parts, " ")

(***************************************************************************)
(* GPTOSSAnalyzer: sentence extractors.  list(set(xs)) enumerates the      *)
(* distinct sentences in the order the interpreter's string hashing gives, *)
(* which is fixed for one process by its hash seed.                        *)
(***************************************************************************)
Whitespace == {" ", "\n", "\t", "\r"}

SentenceEnds == {".", "!", "?"}

\* s.strip()
Strip(s) ==
    LET between(inked) ==
            IF inked = {} THEN ""
            ELSE Slice(s, SetMin(inked),
                       (CHOOSE i \in inked : \A j \in inked : j <= i) + 1)
    IN between({i \in 0..(Len(s) - 1) : CharAt(s, i) \notin Whitespace})

\* re.split(r'[.!?]', text)
RECURSIVE SplitFrom(_, _, _)
SplitFrom(text, ends, start) ==
    LET cut(later) ==
            IF later = {} THEN <<Slice(text, start, Len(text))>>
            ELSE <<Slice(text, start, SetMin(later))>>
                     \o SplitFrom(text, ends, SetMin(later) + 1)
    IN cut({i \in ends : i >= start})

SplitSentences(text) ==
    SplitFrom(text, {i \in 0..(Len(text) - 1) : CharAt(text, i) \in SentenceEnds}, 0)

\* first index at or after start that holds no whitespace
SkipWhitespace(s, start) ==
    LET inked == {i \in start..(Len(s) - 1) : CharAt(s, i) \notin Whitespace}
    IN IF inked = {} THEN Len(s) ELSE SetMin(inked)

\* the words of a pattern, joined by \s+, match s at index pos
RECURSIVE MatchWordsAt(_, _, _)
MatchWordsAt(s, words, pos) ==
    /\ Slice(s, pos, pos + Len(words[1])) = words[1]
    /\ \/ Len(words) = 1
       \/ LET after == pos + Len(words[1])
              next == SkipWhitespace(s, after)
          IN /\ next > after
             /\ IF words[2] = "" THEN TRUE
                ELSE next < Len(s) /\ MatchWordsAt(s, Tail(words), next)

\* re.findall(pattern, s) is not empty
Search(pattern, s) ==
    \E pos \in Occurrences(s, pattern.words[1]) : MatchWordsAt(s, pattern.words, pos)

\* a trailing "" stands for a trailing \s+; source is the pattern as written
Pattern(words, source) == [words |-> words, source |-> source]

recommendation_patterns ==
    << Pattern(<<"recommend", "that">>, "recommend\\s+that"),
       Pattern(<<"suggest", "that">>, "suggest\\s+that"),
       Pattern(<<"propose", "that">>, "propose\\s+that"),
       Pattern(<<"urge", "that">>, "urge\\s+that"),
       Pattern(<<"request", "that">>, "request\\s+that"),
       Pattern(<<"should", "be">>, "should\\s+be"),
       Pattern(<<"would", "be", "better">>, "would\\s+be\\s+better"),
       Pattern(<<"consider", "">>, "consider\\s+"),
       Pattern(<<"we", "recommend">>, "we\\s+recommend"),
       Pattern(<<"we", "suggest">>, "we\\s+suggest") >>

\* pattern.split(): the pattern as written holds no whitespace, so it is
\* one word
PatternWords(pattern) == <<pattern.source>>

\* distinct elements in order of first appearance
RECURSIVE Distinct(_)
Distinct(q) ==
    IF q = <<>> THEN <<>>
    ELSE LET front == Distinct(SubSeq(q, 1, Len(q) - 1))
         IN IF \E i \in 1..Len(front) : front[i] = q[Len(q)]
            THEN front ELSE Append(front, q[Len(q)])

\* permutation number seed of q
RECURSIVE Permute(_, _)
Permute(q, seed) ==
    IF q = <<>> THEN <<>>
    ELSE LET first == (seed % Len(q)) + 1
         IN <<q[first]>>
               \o Permute(SubSeq(q, 1, first - 1) \o SubSeq(q, first + 1, Len(q)),
                          seed \div Len(q))

\* list(set(q))
ListOfSet(q, seed) == Permute(Distinct(q), seed)

_extract_recommendations(comment_data, seed) ==
    LET first_of(hits) == IF hits = <<>> THEN <<>> ELSE <<Strip(hits[1])>>
        found(text, pattern) ==
            IF ~Search(pattern, Lower(text)) THEN <<>>
            ELSE first_of(SelectSeq(SplitSentences(text), LAMBDA sentence :
                              \E w \in 1..Len(PatternWords(pattern)) :
                                  Contains(Lower(sentence), PatternWords(pattern)[w])))
        recommendations(texts) ==
            ConcatSeqs([t \in 1..Len(texts) |->
                ConcatSeqs([k \in 1..Len(recommendation_patterns) |->
                    found(texts[t], recommendation_patterns[k])])])
    IN Take(ListOfSet(recommendations(comment_data.texts), seed), 10)

\* the sentences holding a keyword, of the texts holding a keyword
KeywordSentences(texts, keywords) ==
    LET stripped(hits) == [i \in 1..Len(hits) |-> Strip(hits[i])]
        of(text) ==
            IF ~AnyKeywordIn(Lower(text), keywords) THEN <<>>
            ELSE stripped(SelectSeq(SplitSentences(text), LAMBDA sentence :
                              AnyKeywordIn(Lower(sentence), keywords)))
    IN ConcatSeqs([t \in 1..Len(texts) |-> of(texts[t])])

technical_keywords ==
    << "technical", "technology", "methodology", "standard", "specification",
       "measurement", "testing", "validation", "calibration", "accuracy",
       "precision", "reliability", "interoperability", "compatibility" >>

_identify_technical_issues(comment_data, seed) ==
    Take(ListOfSet(KeywordSentences(comment_data.texts, technical_keywords), seed), 5)

economic_keywords ==
    << "cost", "price", "economic", "financial", "budget", "expense",
       "investment", "revenue", "profit", "loss", "market", "competition",
       "efficiency", "productivity", "employment", "jobs" >>

_identify_economic_concerns(comment_data, seed) ==
    Take(ListOfSet(KeywordSentences(comment_data.texts, economic_keywords), seed), 5)

timeline_keywords ==
    << "timeline", "deadline", "schedule", "implementation", "effective date",
       "compliance date", "phase", "transition", "grace period", "timeframe",
       "too fast", "too slow", "rushed", "delayed", "extended" >>

\* as _identify_timeline_concerns below, with a cap of 10
_identify_timeline_concerns_ten(comment_data, seed) ==
    Take(ListOfSet(KeywordSentences(comment_data.texts, timeline_keywords), seed), 10)

_identify_timeline_concerns(comment_data, seed) ==
    Take(ListOfSet(KeywordSentences(comment_data.texts, timeline_keywords), seed), 5)

challenge_keywords ==
    << "challenge", "barrier", "obstacle", "difficulty", "problem",
       "issue", "concern", "limitation", "constraint", "burden",
       "complex", "complicated", "unclear", "confusing", "impractical" >>

_identify_implementation_challenges(comment_data, seed) ==
    Take(ListOfSet(KeywordSentences(comment_data.texts, challenge_keywords), seed), 5)

(***************************************************************************)
(* GPTOSSAnalyzer.analyze_comments_advanced                                *)
(***************************************************************************)
analyze_comments_advanced(cs, now, seed) ==
    LET result(comment_data, basic_analysis, regulatory_themes,
               impact_assessments, stakeholder_concerns) ==
            [key_points |-> basic_analysis.key_points,
             common_perspectives |-> basic_analysis.perspectives,
             sentiment_summary |-> basic_analysis.sentiment,
             stakeholder_types |-> basic_analysis.stakeholder_types,
             summary |-> _generate_comprehensive_summary(
                             basic_analysis, regulatory_themes, impact_assessments,
                             stakeholder_concerns, Len(cs)),
             total_comments_analyzed |-> Len(cs),
             regulatory_themes |-> regulatory_themes,
             impact_assessments |-> impact_assessments,
             stakeholder_concerns |-> stakeholder_concerns,
             recommendation_patterns |-> _extract_recommendations(comment_data, seed),
             technical_issues |-> _identify_technical_issues(comment_data, seed),
             economic_concerns |-> _identify_economic_concerns(comment_data, seed),
             timeline_concerns |-> _identify_timeline_concerns(comment_data, seed),
             implementation_challenges |->
                 _identify_implementation_challenges(comment_data, seed),
             analysis_timestamp |-> now,
             confidence_scores |-> _calculate_confidence_scores(comment_data)]
        prepared(comment_data) ==
            result(comment_data,
                   _perform_basic_analysis(comment_data),
                   _identify_regulatory_themes(comment_data),
                   _assess_regulatory_impacts(comment_data),
                   _analyze_stakeholder_concerns(comment_data))
    IN prepared(_prepare_comment_data(cs))

(***************************************************************************)
(* RegulationsGovAPI: the regulations.gov service answers every GET with a *)
(* response [status, body]; status 0 stands for a RequestException raised *)
(* by session.get (no response at all).                                    *)
(***************************************************************************)
Response(status, body) == [status |-> status, body |-> body]

Reason(status) ==
    CASE status = 404 -> "Not Found"
      [] status = 500 -> "Internal Server Error"
      [] status = 503 -> "Service Unavailable"
      [] OTHER -> "Error"

_make_request(url, response) ==
    IF response.status = 0
    THEN Raise("Failed to connect to regulations.gov API: connection failed", <<url>>)
    ELSE IF response.status = 401
    THEN Raise("Invalid regulations.gov API key. Please check your API key.", <<url>>)
    ELSE IF response.status = 403
    THEN Raise("API key access denied. Please verify your regulations.gov API key permissions.", <<url>>)
    ELSE IF response.status = 429
    THEN Raise("API rate limit exceeded. Please try again later.", <<url>>)
    ELSE IF response.status >= 400
    THEN Raise("HTTP " \o Str(response.status) \o ": " \o Reason(response.status), <<url>>)
    ELSE Return(response.body, <<url>>)

\* truth value of a dict: it has a key
DictTruthy(d) == DOMAIN d # {}

get_document_object_id(remote, document_id) ==
    LET answered(r) ==
            IF r.raised THEN Return(None, r.sent)
            ELSE IF /\ DictTruthy(r.value)
                    /\ "data" \in DOMAIN r.value
                    /\ "attributes" \in DOMAIN r.value.data
            THEN LET object_id == Get(r.value.data.attributes, "objectId", None)
                 IN Return(IF Truthy(object_id) THEN object_id ELSE None, r.sent)
            ELSE Return(None, r.sent)
    IN answered(_make_request("documents/" \o document_id, remote.document))

get_document_comment_count_strict(remote, document_id) ==
    LET counted(object_id, r) ==
            IF r.raised THEN Return(0, object_id.sent \o r.sent)
            ELSE IF DictTruthy(r.value) /\ "meta" \in DOMAIN r.value
            THEN Return(Get(r.value.meta, "totalElements", 0),
                        object_id.sent \o r.sent)
            ELSE Return(0, object_id.sent \o r.sent)
        resolved(object_id) ==
            IF ~Truthy(object_id.value)
            THEN Raise("No objectId found for document " \o document_id, object_id.sent)
            ELSE counted(object_id,
                         _make_request("comments?commentOnId=" \o object_id.value
                                           \o "&size=5", remote.comment_list))
    IN resolved(get_document_object_id(remote, document_id))

get_document_comment_count(remote, document_id) ==
    LET counted(object_id, r) ==
            IF r.raised THEN Return(0, object_id.sent \o r.sent)
            ELSE IF DictTruthy(r.value) /\ "meta" \in DOMAIN r.value
            THEN Return(Get(r.value.meta, "totalElements", 0),
                        object_id.sent \o r.sent)
            ELSE Return(0, object_id.sent \o r.sent)
        resolved(object_id) ==
            IF ~Truthy(object_id.value) THEN Return(0, object_id.sent)
            ELSE counted(object_id,
                         _make_request("comments?commentOnId=" \o object_id.value
                                           \o "&size=5", remote.comment_list))
    IN resolved(get_document_object_id(remote, document_id))

\* a or b on strings
Or(a, b) == IF Truthy(a) THEN a ELSE b

\* the value is <<comment>>, or <<>> for None
fetch_comment_details(remote, comment_id) ==
    LET comment(comment_data, attributes) ==
            [id |-> Get(comment_data, "id", ""),
             comment_on_document_id |-> Get(attributes, "commentOnDocumentId", ""),
             comment_text |-> Or(Get(attributes, "comment", ""),
                                 Get(attributes, "commentText", "")),
             submitter_name |-> Get(attributes, "submitterName", None),
             organization_name |-> Get(attributes, "organizationName", None),
             posted_date |-> Get(attributes, "postedDate", ""),
             title |-> Get(attributes, "title", None)]
        answered(r) ==
            IF r.raised THEN Return(<<>>, r.sent)
            ELSE IF DictTruthy(r.value) /\ "data" \in DOMAIN r.value
            THEN Return(<<comment(r.value.data,
                                  Get(r.value.data, "attributes", EmptyDict))>>,
                        r.sent)
            ELSE Return(<<>>, r.sent)
    IN answered(_make_request("comments/" \o comment_id,
                              remote.comment_detail[comment_id]))

fetch_comments_by_document_id(remote, document_id, max_comments) ==
    LET collected(sent, fetched) ==
            LET accepted == SelectSeq(fetched, LAMBDA f :
                               /\ f.value # <<>>
                               /\ f.value[1].comment_on_document_id = document_id)
            IN Return([i \in 1..Len(accepted) |-> accepted[i].value[1]],
                      sent \o ConcatSeqs([i \in 1..Len(fetched) |-> fetched[i].sent]))
        \* a summary without an id raises KeyError inside the loop
        details(sent, comment_summaries) ==
            collected(sent,
                      [i \in 1..Min(Len(comment_summaries), max_comments) |->
                          IF "id" \in DOMAIN comment_summaries[i]
                          THEN fetch_comment_details(remote, comment_summaries[i].id)
                          ELSE Return(<<>>, <<>>)])
        listed(object_id, r) ==
            IF r.raised THEN Raise(r.error, object_id.sent \o r.sent)
            ELSE IF ~DictTruthy(r.value) \/ "data" \notin DOMAIN r.value
            THEN Return(<<>>, object_id.sent \o r.sent)
            ELSE IF r.value.data = <<>> THEN Return(<<>>, object_id.sent \o r.sent)
            ELSE details(object_id.sent \o r.sent, r.value.data)
        resolved(object_id) ==
            IF ~Truthy(object_id.value) THEN Return(<<>>, object_id.sent)
            ELSE listed(object_id,
                        _make_request("comments?commentOnId=" \o object_id.value
                                          \o "&size=" \o Str(max_comments),
                                      remote.comment_list))
    IN resolved(get_document_object_id(remote, document_id))

test_api_connection(remote) ==
    LET attempted(dockets, agency) ==
            IF dockets.raised THEN dockets
            ELSE IF DictTruthy(dockets.value)
            THEN Return("API key is valid and working!", dockets.sent)
            ELSE IF agency.raised THEN Raise(agency.error, dockets.sent \o agency.sent)
            ELSE IF DictTruthy(agency.value)
            THEN Return("API key is valid! (Limited access - dockets endpoint restricted)",
                        dockets.sent \o agency.sent)
            ELSE Raise("API key access denied. Your API key may not have the required permissions.",
                       dockets.sent \o agency.sent)
        reported(attempt) ==
            IF ~attempt.raised THEN attempt
            ELSE IF Contains(attempt.error, "Invalid") \/ Contains(attempt.error, "401")
            THEN Raise("Invalid API key. Please check your regulations.gov API key.",
                       attempt.sent)
            ELSE IF Contains(attempt.error, "403") \/ Contains(attempt.error, "access denied")
            THEN Raise("API key access denied. Please contact regulations.gov support to enable comment access.",
                       attempt.sent)
            ELSE Raise("Failed to test API connection: " \o attempt.error, attempt.sent)
    IN reported(attempted(_make_request("dockets?agencyId=EPA", remote.dockets),
                          _make_request("comments?agencyId=EPA",
                                        remote.agency_comments)))

(***************************************************************************)
(* GPTOSSToolInterface                                                     *)
(***************************************************************************)
ToolDefinition(name, properties, required) ==
    [type |-> "function",
     function |-> [name |-> name,
                   parameters |-> [type |-> "object",
                                   properties |-> properties,
                                   required |-> required]]]

get_tool_definitions ==
    << ToolDefinition("analyze_regulatory_comments",
                      <<"document_id", "max_comments", "analysis_depth">>,
                      <<"document_id">>),
       ToolDefinition("get_comment_count", <<"document_id">>, <<"document_id">>),
       ToolDefinition("synthesize_comment_insights",
                      <<"analysis_results", "summary_type">>,
                      <<"analysis_results">>),
       ToolDefinition("identify_regulatory_themes", <<"analysis_results">>,
                      <<"analysis_results">>),
       ToolDefinition("assess_stakeholder_concerns", <<"analysis_results">>,
                      <<"analysis_results">>),
       ToolDefinition("test_api_connection", <<>>, <<>>) >>

\* the parameter lists of the private methods execute_tool calls with
\* **parameters: accepted keywords and those without a default
Signature(method, accepted, required) ==
    [method |-> method, accepted |-> accepted, required |-> required]

Signatures ==
    [analyze_regulatory_comments |->
         Signature("_analyze_regulatory_comments",
                   {"document_id", "max_comments", "analysis_depth"},
                   <<"document_id">>),
     get_comment_count |->
         Signature("_get_comment_count", {"document_id"}, <<"document_id">>),
     synthesize_comment_insights |->
         Signature("_synthesize_comment_insights",
                   {"analysis_results", "summary_type"}, <<"analysis_results">>),
     identify_regulatory_themes |->
         Signature("_identify_regulatory_themes", {"analysis_results"},
                   <<"analysis_results">>),
     assess_stakeholder_concerns |->
         Signature("_assess_stakeholder_concerns", {"analysis_results"},
                   <<"analysis_results">>),
     test_api_connection |-> Signature("_test_api_connection", {}, <<>>)]

\* the TypeError message of method(**params), or "" when the call binds
BindError(sig, params) ==
    LET unexpected == DOMAIN params \ sig.accepted
        missing == SelectSeq(sig.required, LAMBDA k : k \notin DOMAIN params)
    IN IF unexpected # {}
       THEN "GPTOSSToolInterface." \o sig.method
                \o "() got an unexpected keyword argument '"
                \o (CHOOSE k \in unexpected : TRUE) \o "'"
       ELSE IF missing # <<>>
       THEN "GPTOSSToolInterface." \o sig.method
                \o "() missing 1 required positional argument: '"
                \o missing[1] \o "'"
       ELSE ""

_calculate_data_quality_score(cs) ==
    LET score(c) ==
            (IF Truthy(c.comment_text) /\ Len(c.comment_text) > 50 THEN 4 ELSE 0)
          + (IF Truthy(c.submitter_name) \/ Truthy(c.organization_name) THEN 3 ELSE 0)
          + (IF Truthy(c.posted_date) THEN 2 ELSE 0)
          + (IF Truthy(c.title) THEN 1 ELSE 0)
    IN IF cs = <<>> THEN [num |-> 0, den |-> 1]
       ELSE [num |-> SumSeq([i \in 1..Len(cs) |-> score(cs[i])]),
             den |-> 10 * Len(cs)]

\* a comment attribute that regulations.gov sent as a JSON number: the
\* comment text is then an int, which is truthy and no str
JsonNumber == "<7>"

\* index (from 0) of the first text that is no str
FirstNoStr(texts) ==
    SetMin({i \in 1..Len(texts) : texts[i] = JsonNumber}) - 1

\* ' '.join(texts) raises TypeError in the first extractor, and
\* analyze_comments_advanced raises it again
PipelineRaises(cs) ==
    \E i \in 1..Len(cs) : cs[i].comment_text = JsonNumber

PipelineError(cs) ==
    "sequence item " \o Str(FirstNoStr(_prepare_comment_data(cs).texts))
        \o ": expected str instance, int found"

\* what _perform_basic_analysis returns from its except clause
BasicAnalysisFailed(e) ==
    [key_points |-> <<>>,
     common_perspectives |-> <<>>,
     sentiment_summary |-> "Analysis failed",
     stakeholder_types |-> <<>>,
     summary |-> "Error performing analysis: " \o e,
     total_comments_analyzed |-> 0]

_perform_basic_analysis_tool(cs, now, seed) ==
    LET basic(a) ==
            [key_points |-> a.key_points,
             common_perspectives |-> a.common_perspectives,
             sentiment_summary |-> a.sentiment_summary,
             stakeholder_types |-> a.stakeholder_types,
             summary |-> a.summary,
             total_comments_analyzed |-> a.total_comments_analyzed]
    IN IF PipelineRaises(cs) THEN BasicAnalysisFailed(PipelineError(cs))
       ELSE basic(analyze_comments_advanced(cs, now, seed))

_perform_comprehensive_analysis(cs, now, seed) ==
    LET comprehensive(a) ==
            a @@ [comprehensive_metadata |->
                    [analysis_version |-> "1.0",
                     features_used |-> <<"sentiment", "themes", "impacts",
                                         "stakeholders", "recommendations">>,
                     data_quality_score |-> _calculate_data_quality_score(cs),
                     analysis_confidence |->
                         Get(a.confidence_scores, "overall_confidence", 0)]]
    IN comprehensive(analyze_comments_advanced(cs, now, seed))

NoCommentsResultFullShape(document_id) ==
    [success |-> TRUE,
     document_id |-> document_id,
     message |-> "No comments found for this document",
     analysis |-> [total_comments_analyzed |-> 0,
                   key_points |-> <<>>,
                   common_perspectives |-> <<>>,
                   sentiment_summary |-> "No comments available for analysis",
                   stakeholder_types |-> <<>>,
                   regulatory_themes |-> <<>>,
                   impact_assessments |-> <<>>,
                   stakeholder_concerns |-> EmptyDict,
                   summary |-> "No public comments were found for this document."]]

NoCommentsResult(document_id) ==
    [success |-> TRUE,
     document_id |-> document_id,
     message |-> "No comments found for this document",
     analysis |-> [total_comments_analyzed |-> 0,
                   key_points |-> <<>>,
                   common_perspectives |-> <<>>,
                   sentiment_summary |-> "No comments available for analysis",
                   stakeholder_types |-> <<>>,
                   summary |-> "No public comments were found for this document."]]

\* now = <<time read inside the analyzer, time read for the envelope>>
_analyze_regulatory_comments(remote, now, seed, document_id, max_comments, analysis_depth) ==
    LET analysed(fetched) ==
            IF fetched.raised
            THEN Return([success |-> FALSE, error |-> fetched.error,
                         document_id |-> document_id], fetched.sent)
            ELSE IF fetched.value = <<>>
            THEN Return(NoCommentsResult(document_id), fetched.sent)
            ELSE IF analysis_depth # "basic" /\ PipelineRaises(fetched.value)
            THEN Return([success |-> FALSE,
                         error |-> PipelineError(fetched.value),
                         document_id |-> document_id], fetched.sent)
            ELSE Return([success |-> TRUE,
                         document_id |-> document_id,
                         analysis_depth |-> analysis_depth,
                         total_comments_found |-> Len(fetched.value),
                         analysis |->
                             IF analysis_depth = "basic"
                             THEN _perform_basic_analysis_tool(fetched.value, now[1], seed)
                             ELSE IF analysis_depth = "advanced"
                             THEN analyze_comments_advanced(fetched.value, now[1], seed)
                             ELSE _perform_comprehensive_analysis(fetched.value, now[1], seed),
                         timestamp |-> now[2]],
                        fetched.sent)
    IN analysed(fetch_comments_by_document_id(remote, document_id, max_comments))

_get_comment_count(remote, now, document_id) ==
    LET counted(count) ==
            IF count.raised
            THEN Return([success |-> FALSE, error |-> count.error,
                         document_id |-> document_id], count.sent)
            ELSE Return([success |-> TRUE, document_id |-> document_id,
                         comment_count |-> count.value, timestamp |-> now[2]],
                        count.sent)
    IN counted(get_document_comment_count(remote, document_id))

\* a variant that takes only an explicit success: False for a failure
NotSuccessExplicit(analysis_results) ==
    /\ "success" \in DOMAIN analysis_results
    /\ analysis_results.success = FALSE

\* not analysis_results.get("success")
NotSuccess(analysis_results) == ~Get(analysis_results, "success", FALSE)

_create_executive_summary(a) ==
    [overview |-> Get(a, "summary", ""),
     key_findings |-> Take(Get(a, "key_points", <<>>), 3),
     sentiment |-> Get(a, "sentiment_summary", ""),
     stakeholder_engagement |->
         [total_comments |-> Get(a, "total_comments_analyzed", 0),
          stakeholder_types |-> Get(a, "stakeholder_types", <<>>)],
     primary_themes |->
         LET themes == Take(Get(a, "regulatory_themes", <<>>), 3)
         IN [i \in 1..Len(themes) |-> Get(themes[i], "theme", "")],
     confidence_level |->
         Get(Get(a, "confidence_scores", EmptyDict), "overall_confidence", 0)]

_create_technical_summary(a) ==
    [technical_issues |-> Take(Get(a, "technical_issues", <<>>), 5),
     implementation_challenges |->
         Take(Get(a, "implementation_challenges", <<>>), 5),
     regulatory_themes |-> Get(a, "regulatory_themes", <<>>),
     impact_assessments |-> Get(a, "impact_assessments", <<>>),
     recommendations |-> Take(Get(a, "recommendation_patterns", <<>>), 5),
     data_quality |-> Get(a, "confidence_scores", EmptyDict)]

_create_stakeholder_summary(a) ==
    [stakeholder_concerns |-> Get(a, "stakeholder_concerns", EmptyDict),
     stakeholder_types |-> Get(a, "stakeholder_types", <<>>),
     common_perspectives |-> Get(a, "common_perspectives", <<>>),
     economic_concerns |-> Take(Get(a, "economic_concerns", <<>>), 5),
     timeline_concerns |-> Take(Get(a, "timeline_concerns", <<>>), 5),
     engagement_level |-> Get(a, "total_comments_analyzed", 0)]

_synthesize_comment_insights(now, analysis_results, summary_type) ==
    IF NotSuccess(analysis_results) THEN Return(analysis_results, <<>>)
    ELSE LET a == Get(analysis_results, "analysis", EmptyDict)
         IN Return([success |-> TRUE,
                    summary_type |-> summary_type,
                    insights |->
                        IF summary_type = "executive"
                        THEN _create_executive_summary(a)
                        ELSE IF summary_type = "technical"
                        THEN _create_technical_summary(a)
                        ELSE _create_stakeholder_summary(a),
                    document_id |-> Get(analysis_results, "document_id", None),
                    timestamp |-> now[2]], <<>>)

\* first category key that occurs in the theme name, or "" for none
ThemeCategoryOf(theme_name) ==
    IF Contains(theme_name, "compliance") THEN "compliance"
    ELSE IF Contains(theme_name, "economic") THEN "economic"
    ELSE IF Contains(theme_name, "environmental") THEN "environmental"
    ELSE IF Contains(theme_name, "safety") THEN "safety"
    ELSE IF Contains(theme_name, "technical") THEN "technical"
    ELSE IF Contains(theme_name, "timeline") THEN "timeline"
    ELSE ""

_identify_regulatory_themes_tool(now, analysis_results) ==
    IF NotSuccess(analysis_results) THEN Return(analysis_results, <<>>)
    ELSE LET a == Get(analysis_results, "analysis", EmptyDict)
             themes == Get(a, "regulatory_themes", <<>>)
             bucket(category) ==
                 SelectSeq(themes, LAMBDA t :
                     ThemeCategoryOf(Get(t, "theme", "")) = category)
         IN Return([success |-> TRUE,
                    theme_categories |->
                        [compliance |-> bucket("compliance"),
                         economic |-> bucket("economic"),
                         environmental |-> bucket("environmental"),
                         safety |-> bucket("safety"),
                         technical |-> bucket("technical"),
                         timeline |-> bucket("timeline")],
                    total_themes |-> Len(themes),
                    document_id |-> Get(analysis_results, "document_id", None),
                    timestamp |-> now[2]], <<>>)

\* sum(len(concern_list) for concern_list in concerns.values())
RECURSIVE TotalConcerns(_, _)
TotalConcerns(concerns, keys) ==
    IF keys = {} THEN 0
    ELSE LET k == CHOOSE x \in keys : TRUE
         IN Len(concerns[k]) + TotalConcerns(concerns, keys \ {k})

_assess_stakeholder_concerns(now, analysis_results) ==
    IF NotSuccess(analysis_results) THEN Return(analysis_results, <<>>)
    ELSE LET a == Get(analysis_results, "analysis", EmptyDict)
             concerns == Get(a, "stakeholder_concerns", EmptyDict)
         IN Return([success |-> TRUE,
                    concern_analysis |->
                        [total_concerns |-> TotalConcerns(concerns, DOMAIN concerns),
                         concerns_by_type |->
                             [organizations |-> Len(Get(concerns, "organizations", <<>>)),
                              individuals |-> Len(Get(concerns, "individuals", <<>>)),
                              common |-> Len(Get(concerns, "common", <<>>))],
                         top_concerns |-> Take(Get(concerns, "common", <<>>), 5),
                         stakeholder_distribution |->
                             [organization_concerns |->
                                  Take(Get(concerns, "organizations", <<>>), 3),
                              individual_concerns |->
                                  Take(Get(concerns, "individuals", <<>>), 3)]],
                    document_id |-> Get(analysis_results, "document_id", None),
                    timestamp |-> now[2]], <<>>)

_test_api_connection(remote, now) ==
    LET tested(result) ==
            IF result.raised
            THEN Return([success |-> FALSE, error |-> result.error,
                         timestamp |-> now[2]], result.sent)
            ELSE Return([success |-> TRUE, message |-> result.value,
                         timestamp |-> now[2]], result.sent)
    IN tested(test_api_connection(remote))

UnknownTool(name) ==
    [success |-> FALSE,
     error |-> "Unknown tool: " \o name,
     available_tools |-> [i \in 1..Len(get_tool_definitions) |->
                             get_tool_definitions[i].function.name]]

\* a binding that fails only after the document has been looked up
BindAfterLookup(name, params, call) ==
    IF BindError(Signatures[name], params) # ""
    THEN Raise(BindError(Signatures[name], params),
               <<"documents/" \o Get(params, "document_id", "")>>)
    ELSE call

\* method(**parameters): a TypeError when the keywords do not bind
Bind(name, params, call) ==
    IF BindError(Signatures[name], params) # ""
    THEN Raise(BindError(Signatures[name], params), <<>>)
    ELSE call

DispatchFiveTools(name, params, remote, now, seed) ==
    IF name = "analyze_regulatory_comments"
    THEN Bind(name, params,
              _analyze_regulatory_comments(remote, now, seed, params.document_id,
                                           Get(params, "max_comments", 30),
                                           Get(params, "analysis_depth",
                                               "advanced")))
    ELSE IF name = "get_comment_count"
    THEN Bind(name, params, _get_comment_count(remote, now, params.document_id))
    ELSE IF name = "synthesize_comment_insights"
    THEN Bind(name, params,
              _synthesize_comment_insights(now, params.analysis_results,
                                           Get(params, "summary_type", "executive")))
    ELSE IF name = "identify_regulatory_themes"
    THEN Bind(name, params,
              _identify_regulatory_themes_tool(now, params.analysis_results))
    ELSE IF name = "assess_stakeholder_concerns"
    THEN Bind(name, params,
              _assess_stakeholder_concerns(now, params.analysis_results))
    ELSE Return(UnknownTool(name), <<>>)

Dispatch(name, params, remote, now, seed) ==
    IF name = "analyze_regulatory_comments"
    THEN Bind(name, params,
              _analyze_regulatory_comments(remote, now, seed, params.document_id,
                                           Get(params, "max_comments", 30),
                                           Get(params, "analysis_depth",
                                               "advanced")))
    ELSE IF name = "get_comment_count"
    THEN Bind(name, params, _get_comment_count(remote, now, params.document_id))
    ELSE IF name = "synthesize_comment_insights"
    THEN Bind(name, params,
              _synthesize_comment_insights(now, params.analysis_results,
                                           Get(params, "summary_type", "executive")))
    ELSE IF name = "identify_regulatory_themes"
    THEN Bind(name, params,
              _identify_regulatory_themes_tool(now, params.analysis_results))
    ELSE IF name = "assess_stakeholder_concerns"
    THEN Bind(name, params,
              _assess_stakeholder_concerns(now, params.analysis_results))
    ELSE IF name = "test_api_connection"
    THEN Bind(name, params, _test_api_connection(remote, now))
    ELSE Return(UnknownTool(name), <<>>)

\* an except clause whose envelope does not say which tool failed
execute_tool_anonymous(name, params, remote, now, seed) ==
    LET caught(outcome) ==
            IF outcome.raised
            THEN Return([success |-> FALSE, error |-> outcome.error], outcome.sent)
            ELSE outcome
    IN caught(Dispatch(name, params, remote, now, seed))

execute_tool(name, params, remote, now, seed) ==
    LET caught(outcome) ==
            IF outcome.raised
            THEN Return([success |-> FALSE, error |-> outcome.error, tool |-> name],
                        outcome.sent)
            ELSE outcome
    IN caught(Dispatch(name, params, remote, now, seed))

(***************************************************************************)
(* json.loads as OllamaCommentAnalyzer._parse_analysis_response calls it.  *)
(* A JSON object is a function on its keys, an array a sequence, null is   *)
(* None and a number with a fraction or exponent is kept as its text.      *)
(* Replies hold no \b and no \u escape.                                    *)
(***************************************************************************)
\* s[i:i+1]
At(s, i) == Slice(s, i, i + 1)

Ok(v, end) == [ok |-> TRUE, value |-> v, end |-> end]

Fail(msg, pos) == [ok |-> FALSE, msg |-> msg, pos |-> pos]

Digits == {"0", "1", "2", "3", "4", "5", "6", "7", "8", "9"}

DigitValue ==
    [c \in Digits |-> CHOOSE n \in 0..9 : Str(n) = c]

\* int(text) of a run of digits
RECURSIVE IntOf(_)
IntOf(text) ==
    IF text = "" THEN 0
    ELSE 10 * IntOf(Slice(text, 0, Len(text) - 1))
            + DigitValue[At(text, Len(text) - 1)]

\* first index at or after i that holds no digit
DigitsEnd(s, i) ==
    LET others == {j \in i..(Len(s) - 1) : At(s, j) \notin Digits}
    IN IF others = {} THEN Len(s) ELSE SetMin(others)

\* end of (0|[1-9]\d*) matched at first, or first when it does not match
IntegerEnd(s, first) ==
    IF At(s, first) = "0" THEN first + 1
    ELSE IF At(s, first) \in Digits THEN DigitsEnd(s, first)
    ELSE first

\* end of (\.\d+)? matched at p
FractionEnd(s, p) ==
    IF At(s, p) = "." /\ At(s, p + 1) \in Digits
    THEN DigitsEnd(s, p + 1) ELSE p

\* end of ([eE][-+]?\d+)? matched at p
ExponentEnd(s, p) ==
    LET digits == IF At(s, p + 1) \in {"+", "-"} THEN p + 2 ELSE p + 1
    IN IF At(s, p) \in {"e", "E"} /\ At(s, digits) \in Digits
       THEN DigitsEnd(s, digits) ELSE p

\* the number scanned at i: an int, or a float when it has a fraction or an
\* exponent
NumberValue(s, i, first, int_end, end) ==
    IF int_end = first THEN Fail("", i)
    ELSE IF end > int_end THEN Ok([float |-> Slice(s, i, end)], end)
    ELSE Ok((IF first > i THEN -1 ELSE 1) * IntOf(Slice(s, first, int_end)),
            int_end)

\* NUMBER_RE.match(s, i): -?(0|[1-9]\d*)(\.\d+)?([eE][-+]?\d+)?
match_number(s, i) ==
    LET first == IF At(s, i) = "-" THEN i + 1 ELSE i
    IN NumberValue(s, i, first, IntegerEnd(s, first),
                   ExponentEnd(s, FractionEnd(s, IntegerEnd(s, first))))

ControlChars == {"\n", "\t", "\r", "\f"}

Escapes ==
    [c \in {"\"", "\\", "/", "f", "n", "r", "t"} |->
        CASE c = "\"" -> "\""
          [] c = "\\" -> "\\"
          [] c = "/" -> "/"
          [] c = "f" -> "\f"
          [] c = "n" -> "\n"
          [] c = "r" -> "\r"
          [] c = "t" -> "\t"]

\* scanstring(s, end): the string whose opening quote is at end - 1
RECURSIVE ScanChars(_, _, _, _)
ScanChars(s, i, acc, begin) ==
    LET special == {j \in i..(Len(s) - 1) :
                       At(s, j) \in {"\"", "\\"} \cup ControlChars}
    IN IF special = {} THEN Fail("Unterminated string starting at", begin)
       ELSE LET j == SetMin(special)
                chunk == acc \o Slice(s, i, j)
            IN IF At(s, j) = "\"" THEN Ok(chunk, j + 1)
               ELSE IF At(s, j) \in ControlChars
               THEN Fail("Invalid control character at", j)
               ELSE IF At(s, j + 1) = ""
               THEN Fail("Unterminated string starting at", begin)
               ELSE IF At(s, j + 1) \in DOMAIN Escapes
               THEN ScanChars(s, j + 2, chunk \o Escapes[At(s, j + 1)], begin)
               ELSE Fail("Invalid \\escape", j)

scanstring(s, end) == ScanChars(s, end, "", end - 1)

\* dict(pairs): the last value of a repeated key stays
DictOf(pairs) ==
    [k \in {pairs[i][1] : i \in 1..Len(pairs)} |->
        pairs[CHOOSE i \in 1..Len(pairs) :
                 /\ pairs[i][1] = k
                 /\ \A j \in (i + 1)..Len(pairs) : pairs[j][1] # k][2]]

RECURSIVE scan_once(_, _)
RECURSIVE ObjectMembers(_, _, _)
RECURSIVE ArrayItems(_, _, _)

\* the loop of JSONObject; end is just past the opening quote of a key
ObjectMembers(s, end, pairs) ==
    LET key == scanstring(s, end)
    IN IF ~key.ok THEN key
       ELSE
       LET colon == IF At(s, key.end) = ":" THEN key.end
                    ELSE SkipWhitespace(s, key.end)
       IN IF At(s, colon) # ":" THEN Fail("Expecting ':' delimiter", colon)
          ELSE
          LET value == scan_once(s, SkipWhitespace(s, colon + 1))
          IN IF ~value.ok THEN value
             ELSE
             LET after == SkipWhitespace(s, value.end)
                 all == Append(pairs, <<key.value, value.value>>)
             IN IF At(s, after) = "}" THEN Ok(DictOf(all), after + 1)
                ELSE IF At(s, after) # ","
                THEN Fail("Expecting ',' delimiter", after)
                ELSE LET next == SkipWhitespace(s, after + 1)
                     IN IF At(s, next) # "\""
                        THEN Fail("Expecting property name enclosed in double quotes",
                                  next)
                        ELSE ObjectMembers(s, next + 1, all)

\* JSONObject; end is just past the opening brace
JSONObject(s, end) ==
    LET first == SkipWhitespace(s, end)
    IN IF At(s, first) = "}" THEN Ok(EmptyDict, first + 1)
       ELSE IF At(s, first) # "\""
       THEN Fail("Expecting property name enclosed in double quotes", first)
       ELSE ObjectMembers(s, first + 1, <<>>)

\* the loop of JSONArray; end is where the next item starts
ArrayItems(s, end, values) ==
    LET value == scan_once(s, end)
    IN IF ~value.ok THEN value
       ELSE LET after == SkipWhitespace(s, value.end)
                all == Append(values, value.value)
            IN IF At(s, after) = "]" THEN Ok(all, after + 1)
               ELSE IF At(s, after) # ","
               THEN Fail("Expecting ',' delimiter", after)
               ELSE ArrayItems(s, SkipWhitespace(s, after + 1), all)

\* JSONArray; end is just past the opening bracket
JSONArray(s, end) ==
    LET first == SkipWhitespace(s, end)
    IN IF At(s, first) = "]" THEN Ok(<<>>, first + 1)
       ELSE ArrayItems(s, first, <<>>)

scan_once(s, idx) ==
    LET nextchar == At(s, idx)
    IN IF nextchar = "\"" THEN scanstring(s, idx + 1)
       ELSE IF nextchar = "{" THEN JSONObject(s, idx + 1)
       ELSE IF nextchar = "[" THEN JSONArray(s, idx + 1)
       ELSE IF nextchar = "n" /\ Slice(s, idx, idx + 4) = "null"
       THEN Ok(None, idx + 4)
       ELSE IF nextchar = "t" /\ Slice(s, idx, idx + 4) = "true"
       THEN Ok(TRUE, idx + 4)
       ELSE IF nextchar = "f" /\ Slice(s, idx, idx + 5) = "false"
       THEN Ok(FALSE, idx + 5)
       ELSE IF match_number(s, idx).ok THEN match_number(s, idx)
       ELSE IF nextchar = "N" /\ Slice(s, idx, idx + 3) = "NaN"
       THEN Ok([float |-> "NaN"], idx + 3)
       ELSE IF nextchar = "I" /\ Slice(s, idx, idx + 8) = "Infinity"
       THEN Ok([float |-> "Infinity"], idx + 8)
       ELSE IF nextchar = "-" /\ Slice(s, idx, idx + 9) = "-Infinity"
       THEN Ok([float |-> "-Infinity"], idx + 9)
       ELSE Fail("Expecting value", idx)

\* str(JSONDecodeError(msg, doc, pos))
JSONDecodeError(msg, doc, pos) ==
    LET newlines == {i \in Occurrences(doc, "\n") : i < pos}
        lineno == Cardinality(newlines) + 1
        colno == IF newlines = {} THEN pos + 1
                 ELSE pos - (CHOOSE i \in newlines : \A j \in newlines : j <= i)
    IN msg \o ": line " \o Str(lineno) \o " column " \o Str(colno)
           \o " (char " \o Str(pos) \o ")"

json_loads(s) ==
    LET obj == scan_once(s, SkipWhitespace(s, 0))
    IN IF ~obj.ok THEN Raise(JSONDecodeError(obj.msg, s, obj.pos), <<>>)
       ELSE IF SkipWhitespace(s, obj.end) # Len(s)
       THEN Raise(JSONDecodeError("Extra data", s, SkipWhitespace(s, obj.end)), <<>>)
       ELSE Return(obj.value, <<>>)

(***************************************************************************)
(* OllamaCommentAnalyzer._parse_analysis_response                          *)
(***************************************************************************)
StartsWith(s, prefix) == Slice(s, 0, Len(prefix)) = prefix

\* a TLA+ string cannot hold a backquote: ~ stands for it, and replies hold
\* no ~ of their own
Fence == "~~~"

JsonFence == "~~~json"

DegradedAnalysis(response) ==
    [summary |-> IF Len(response) > 500
                 THEN Slice(response, 0, 500) \o "..." ELSE response,
     key_insights |-> <<"Analysis completed but response format was not JSON">>,
     common_perspectives |-> <<"Response parsing required manual review">>,
     regulatory_themes |-> <<>>,
     stakeholder_concerns |-> <<>>,
     recommendations |-> <<>>,
     sentiment_analysis |-> [overall_sentiment |-> "unknown",
                             confidence |-> 50,
                             details |-> "Response format was not JSON"],
     impact_assessment |-> [economic_impact |-> "unknown",
                            implementation_challenges |-> <<>>,
                            timeline_concerns |-> <<>>],
     confidence_score |-> 50,
     total_comments_analyzed |-> 0,
     raw_response |-> response]

ParseErrorAnalysis(response, e) ==
    [summary |-> "Analysis completed but response could not be parsed as JSON",
     key_insights |-> <<"Response parsing failed">>,
     common_perspectives |-> <<"Manual review required">>,
     regulatory_themes |-> <<>>,
     stakeholder_concerns |-> <<>>,
     recommendations |-> <<>>,
     sentiment_analysis |-> [overall_sentiment |-> "unknown",
                             confidence |-> 30,
                             details |-> "JSON parsing error: " \o e],
     impact_assessment |-> [economic_impact |-> "unknown",
                            implementation_challenges |-> <<>>,
                            timeline_concerns |-> <<>>],
     confidence_score |-> 30,
     total_comments_analyzed |-> 0,
     raw_response |-> response,
     parse_error |-> e]

\* a closing fence right after the opening one counts as a block
HasJsonBlockOrEmpty(response, start, end) ==
    Contains(response, JsonFence) /\ end >= start

\* the reply holds a JSON fence and, after it, a fence with text before it
HasJsonBlock(response, start, end) ==
    Contains(response, JsonFence) /\ end > start

\* the block is taken up to the last fence of the reply
ParseAttemptLastFence(response) ==
    LET start == Find(response, JsonFence, 0) + 7
        fences == {i \in Occurrences(response, Fence) : i >= start}
        end == IF fences = {} THEN -1
               ELSE CHOOSE i \in fences : \A j \in fences : j <= i
    IN IF HasJsonBlock(response, start, end)
       THEN json_loads(Strip(Slice(response, start, end)))
       ELSE IF StartsWith(Strip(response), "{")
       THEN json_loads(response)
       ELSE Return(DegradedAnalysis(response), <<>>)

\* the body of the try block
ParseAttempt(response) ==
    LET start == Find(response, JsonFence, 0) + 7
        end == Find(response, Fence, start)
    IN IF HasJsonBlock(response, start, end)
       THEN json_loads(Strip(Slice(response, start, end)))
       ELSE IF StartsWith(Strip(response), "{")
       THEN json_loads(response)
       ELSE Return(DegradedAnalysis(response), <<>>)

\* the try block without its except clause
_parse_analysis_response_uncaught(response) == ParseAttempt(response)

_parse_analysis_response(response) ==
    LET attempt == ParseAttempt(response)
    IN IF attempt.raised
       THEN Return(ParseErrorAnalysis(response, attempt.error), <<>>)
       ELSE attempt

(***************************************************************************)
(* GPTOSSAnalyzer.__init__: the keyword tables an analyzer instance holds. *)
(* No method reads them again: every extractor builds its own table.       *)
(***************************************************************************)
_load_regulatory_keywords ==
    [compliance |-> <<"compliance", "conform", "adhere", "follow",
                      "meet requirements">>,
     economic |-> <<"cost", "benefit", "economic", "financial", "budget",
                    "investment">>,
     environmental |-> <<"environment", "pollution", "emissions", "conservation",
                         "sustainability">>,
     safety |-> <<"safety", "health", "risk", "hazard", "protection", "security">>,
     technical |-> <<"technical", "standard", "specification", "methodology",
                     "procedure">>]

_load_sentiment_indicators ==
    [positive |-> <<"support", "agree", "beneficial", "good", "effective",
                    "necessary">>,
     negative |-> <<"oppose", "concern", "problem", "burden", "costly", "harmful">>,
     neutral |-> <<"suggest", "recommend", "propose", "consider", "evaluate",
                   "assess">>]

_load_stakeholder_patterns ==
    [organization |-> <<"inc", "corp", "llc", "association", "institute",
                        "foundation", "coalition">>,
     government |-> <<"department", "agency", "bureau", "office", "commission",
                      "authority">>,
     academic |-> <<"university", "college", "research", "institute", "professor",
                    "dr.">>,
     individual |-> <<"mr.", "ms.", "mrs.", "dr.", "individual", "citizen",
                      "resident">>]

\* the instance attributes after GPTOSSAnalyzer()
GPTOSSAnalyzer ==
    [regulatory_keywords |-> _load_regulatory_keywords,
     sentiment_indicators |-> _load_sentiment_indicators,
     stakeholder_patterns |-> _load_stakeholder_patterns]

\* callers that may be inside execute_tool of one interface at a time
Callers == {1, 2}

\* nobody is inside execute_tool and nothing has returned
NoInvocations ==
    /\ tables = GPTOSSAnalyzer
    /\ in_flight = [c \in Callers |-> None]
    /\ completed = <<>>

\* analyze_document_comments has not been called
NoDocumentAnalysis ==
    /\ generation = EmptyDict
    /\ posts = <<>>
    /\ document_result = <<>>

(***************************************************************************)
(* Inputs of the analyzer: comment lists                                   *)
(***************************************************************************)
\* longest varied prefix of a comment list
MaxVaried == 2

\* most filler comments appended after the varied prefix
MaxPad == 20

\* analyses run on one comment list
MaxRuns == 1

\* values datetime.now().isoformat() can take
Times == {"t1", "t2"}

\* hash seeds a process can start with
HashSeeds == {0, 1}

Comment(text, submitter, organization) ==
    [id |-> "c", comment_on_document_id |-> "DOC-1", comment_text |-> text,
     submitter_name |-> submitter, organization_name |-> organization,
     posted_date |-> "2023-01-15", title |-> None]

SampleComments ==
    { Comment("", "Jane Doe", None),
      Comment("Cost is a burden.", "Jane Doe", None),
      Comment("cost COST risk", None, "Acme Corp"),
      Comment("burden cost waste risk phase criteria", "John Smith", "Acme Corp") }

FillerComments ==
    { Comment("", None, None), Comment("ok", "Jane Doe", None) }

VariedPrefixes ==
    UNION { [1..n -> SampleComments] : n \in 0..MaxVaried }

InputCorpora ==
    { prefix \o [i \in 1..n |-> filler] :
        prefix \in VariedPrefixes, n \in 0..MaxPad, filler \in FillerComments }

\* a text of more than 100 characters
LongComment ==
    "This rule is costly and complicated for every small family farm in our county, and nobody has explained to us how to comply"

\* comments that word a verdict, a recommendation, a deadline, an impact
PhrasedComments ==
    { Comment("We support and agree: good. A burden, a problem.", "Jane Doe", None),
      Comment("We recommend extending the compliance deadline. The public and the industry agree!",
              None, "Acme Corp"),
      Comment("The public timeline is unclear", "John Smith", None),
      Comment("phase a. Phase b! phase c? phase d. phase e. phase f", "Jane Doe", None),
      Comment(LongComment, "John Smith", "Family Farm Cooperative"),
      Comment("Public users and public agencies", None, None) }

\* short comment lists with the phrased comments among them
PhrasedCorpora ==
    UNION { [1..n -> SampleComments \cup PhrasedComments] : n \in 1..MaxVaried }

(***************************************************************************)
(* Specification of the analyzer: a comment list is analysed               *)
(***************************************************************************)
InitAnalyzer ==
    /\ comments \in InputCorpora \cup PhrasedCorpora
    /\ analysis = <<>>
    /\ tool_name = ""
    /\ parameters = EmptyDict
    /\ tool_result = EmptyDict
    /\ requests = <<>>
    /\ service = EmptyDict
    /\ hash_seed \in HashSeeds
    /\ clock = 0
    /\ raw_response = ""
    /\ parsed = <<>>
    /\ NoInvocations
    /\ NoDocumentAnalysis

Analyze ==
    /\ Len(analysis) < MaxRuns
    /\ \E now \in Times :
          analysis' = Append(analysis,
                             analyze_comments_advanced(comments, now, hash_seed))
    /\ UNCHANGED <<comments, toolVars, processVars, bridgeVars, sharedVars,
                   generationVars>>

NextAnalyzer == Analyze

SpecAnalyzer == InitAnalyzer /\ [][NextAnalyzer]_vars

\* comments that _prepare_comment_data keeps
NumTexts == Cardinality({i \in 1..Len(comments) : comments[i].comment_text # ""})

(***************************************************************************)
(* C1: overall_confidence of every analysis is fixed by the number of      *)
(* comments supplied alone: 0.8 from 20 comments, 0.6 from 10, 0.4 from 5, *)
(* else 0.2, whatever the texts are (empty texts count too).               *)
(***************************************************************************)
C1_OverallByTotal ==
    \A r \in 1..Len(analysis) :
        LET total == Len(comments)
            overall == analysis[r].confidence_scores.overall_confidence
        IN /\ (total >= 20) => overall = 80
           /\ (total >= 10 /\ total < 20) => overall = 60
           /\ (total >= 5 /\ total < 10) => overall = 40
           /\ (total < 5) => overall = 20
           /\ (total = 7) => overall = 40
           /\ (total = 20) => overall = 80
           /\ (total = 3) => overall = 20

\* 20 comments, most of them without text, one with theme keywords
C1_Witness ==
    /\ Len(analysis) > 0
    /\ Len(comments) = 20
    /\ NumTexts < 5
    /\ analysis[1].regulatory_themes # <<>>
    /\ analysis[1].confidence_scores.overall_confidence = 80

(***************************************************************************)
(* C2: each of the six confidence dimensions is the tier value plus its    *)
(* offset (key_points +0.1, stakeholder +0.05, theme +0.15, impact +0.1,   *)
(* sentiment and overall +0) capped at 1.0, lies in [0,1], and is not      *)
(* lower than what any shorter prefix of the same comment list gets.       *)
(***************************************************************************)
ConfidenceDims ==
    {"overall_confidence", "key_points_confidence", "sentiment_confidence",
     "stakeholder_confidence", "theme_confidence", "impact_confidence"}

ConfidenceOffset ==
    [overall_confidence |-> 0, key_points_confidence |-> 10,
     sentiment_confidence |-> 0, stakeholder_confidence |-> 5,
     theme_confidence |-> 15, impact_confidence |-> 10]

TierValue(total) ==
    IF total >= 20 THEN 80 ELSE IF total >= 10 THEN 60
    ELSE IF total >= 5 THEN 40 ELSE 20

C2_DimensionsOffsetBoundedMonotone ==
    \A r \in 1..Len(analysis) :
        LET scores == analysis[r].confidence_scores
        IN /\ DOMAIN scores = ConfidenceDims
           /\ \A d \in ConfidenceDims :
                 /\ scores[d] = Min(TierValue(Len(comments)) + ConfidenceOffset[d], 100)
                 /\ scores[d] >= 0 /\ scores[d] <= 100
                 /\ \A m \in 0..Len(comments) :
                       _calculate_confidence_scores(
                           _prepare_comment_data(Take(comments, m)))[d]
                         <= scores[d]

\* a list long enough to be in the top tier, whose shorter prefixes cross
\* all the lower tiers
C2_Witness ==
    /\ Len(analysis) > 0
    /\ Len(comments) >= 20
    /\ analysis[1].confidence_scores.theme_confidence = 95
    /\ analysis[1].confidence_scores.stakeholder_confidence = 85

(***************************************************************************)
(* C3: the theme list has at most 5 entries, is in descending order of     *)
(* relevance_score with equal scores in category-table order, and every    *)
(* entry has frequency > 0 and relevance_score = min(frequency / number    *)
(* of texts, 1.0).                                                         *)
(***************************************************************************)
TableIndex(name) == CHOOSE i \in 1..Len(ThemeNames) : ThemeNames[i] = name

C3_ThemesCappedSorted ==
    \A r \in 1..Len(analysis) :
        LET themes == analysis[r].regulatory_themes
        IN /\ Len(themes) <= 5
           /\ \A j, k \in 1..Len(themes) :
                 j < k =>
                   /\ ~RatLess(themes[j].relevance_score, themes[k].relevance_score)
                   /\ RatEq(themes[j].relevance_score, themes[k].relevance_score)
                        => TableIndex(themes[j].theme) < TableIndex(themes[k].theme)
           /\ \A j \in 1..Len(themes) :
                 /\ themes[j].frequency > 0
                 /\ themes[j].relevance_score.den > 0
                 /\ themes[j].relevance_score.num * NumTexts
                      = Min(themes[j].frequency, NumTexts) * themes[j].relevance_score.den

\* all six categories occur in the texts, the list is cut to 5, and it
\* holds both a tie and a strict drop
C3_Witness ==
    /\ Len(analysis) > 0
    /\ \A p \in 1..Len(theme_patterns) :
          \E i \in 1..Len(comments) : \E k \in 1..Len(theme_patterns[p].keywords) :
              Contains(Lower(comments[i].comment_text), theme_patterns[p].keywords[k])
    /\ Len(analysis[1].regulatory_themes) = 5
    /\ \E j \in 1..4 :
          RatEq(analysis[1].regulatory_themes[j].relevance_score,
                analysis[1].regulatory_themes[j + 1].relevance_score)
    /\ \E j \in 1..4 :
          RatLess(analysis[1].regulatory_themes[j + 1].relevance_score,
                  analysis[1].regulatory_themes[j].relevance_score)

(***************************************************************************)
(* Inputs of the tool interface: what regulations.gov holds and answers    *)
(***************************************************************************)
\* invocations of execute_tool in one session
MaxCalls == 2

ErrorStatuses == {0, 401, 403, 429, 500}

ObjectId == "0900006480a1b2c3"

DocumentFound ==
    Response(200, [data |-> [id |-> "DOC-1",
                             attributes |-> [objectId |-> ObjectId]]])

DocumentResponses ==
    { DocumentFound,
      Response(200, [data |-> [id |-> "DOC-1", attributes |-> [objectId |-> ""]]]),
      Response(200, [data |-> [id |-> "DOC-1", attributes |-> [title |-> "Rule"]]]),
      Response(200, [data |-> [id |-> "DOC-1"]]),
      Response(200, EmptyDict) }
    \cup { Response(st, EmptyDict) : st \in ErrorStatuses }

\* GET /comments/{id} for a stored comment
DetailResponse(c) ==
    Response(200, [data |-> [id |-> c.id,
                             attributes |->
                                 [commentOnDocumentId |-> c.comment_on_document_id,
                                  comment |-> c.comment_text,
                                  submitterName |-> c.submitter_name,
                                  organizationName |-> c.organization_name,
                                  postedDate |-> c.posted_date]]])

StoredComment(id, document_id, text, submitter, organization) ==
    [id |-> id, comment_on_document_id |-> document_id, comment_text |-> text,
     submitter_name |-> submitter, organization_name |-> organization,
     posted_date |-> "2023-01-15", title |-> None]

CommentIds == {"c1", "c2", "c3"}

StoreTwoOrganizations ==
    << StoredComment("c1", "DOC-1", "Cost is a burden. We support the timeline.",
                     "John Smith", "Small Business Association"),
       StoredComment("c2", "DOC-1", "burden cost waste risk phase criteria",
                     "Jane Doe", "Acme Corp") >>

StoreMixed ==
    << StoredComment("c1", "DOC-2", "cost COST risk", None, "Acme Corp"),
       StoredComment("c2", "DOC-1", "", "Jane Doe", None),
       StoredComment("c3", "DOC-1", "The compliance date deadline", None, None) >>

\* the first comment came with a number in place of its text
StoreNumberComment ==
    << StoredComment("c1", "DOC-1", JsonNumber, "Jane Doe", None),
       StoredComment("c2", "DOC-1", "Cost is a burden.", "Jane Doe", None) >>

StoreOtherDocument ==
    << StoredComment("c1", "DOC-2", "cost COST risk", None, "Acme Corp") >>

\* GET /comments?filter[commentOnId]=...: the ids and the total
ListResponse(store) ==
    Response(200, [meta |-> [totalElements |-> Len(store)],
                   data |-> [i \in 1..Len(store) |-> [id |-> store[i].id]]])

Details(store, failing) ==
    [id \in CommentIds |->
        IF id \in failing \/ ~\E i \in 1..Len(store) : store[i].id = id
        THEN Response(404, EmptyDict)
        ELSE DetailResponse(store[CHOOSE i \in 1..Len(store) : store[i].id = id])]

Remote(document, comment_list, comment_detail, dockets, agency_comments) ==
    [document |-> document, comment_list |-> comment_list,
     comment_detail |-> comment_detail, dockets |-> dockets,
     agency_comments |-> agency_comments]

ServiceUp == Response(200, [data |-> <<[id |-> "EPA-HQ-OAR-2021-0317"]>>])

RemoteWithStore(store, failing) ==
    Remote(DocumentFound, ListResponse(store), Details(store, failing),
           ServiceUp, ServiceUp)

Healthy == RemoteWithStore(StoreTwoOrganizations, {})

NoComments == RemoteWithStore(<<>>, {})

Remotes ==
    { RemoteWithStore(StoreTwoOrganizations, {}),
      RemoteWithStore(StoreTwoOrganizations, {"c1"}),
      RemoteWithStore(StoreTwoOrganizations, {"c1", "c2"}),
      RemoteWithStore(StoreMixed, {}),
      RemoteWithStore(StoreOtherDocument, {}),
      RemoteWithStore(StoreNumberComment, {}),
      NoComments }
    \cup { [Healthy EXCEPT !.document = d] : d \in DocumentResponses }
    \cup { [Healthy EXCEPT !.comment_list = Response(st, EmptyDict)] :
             st \in ErrorStatuses }
    \cup { [Healthy EXCEPT !.comment_list = Response(200, body)] :
             body \in { EmptyDict,
                        [meta |-> [totalElements |-> 7]],
                        [data |-> <<[id |-> "c1"], [title |-> "no id"]>>] } }
    \cup { [NoComments EXCEPT !.dockets = Response(st, EmptyDict)] :
             st \in ErrorStatuses \cup {200} }
    \cup { [NoComments EXCEPT !.dockets = Response(200, EmptyDict),
                           !.agency_comments = Response(st, EmptyDict)] :
             st \in ErrorStatuses \cup {200} }

ToolNames ==
    {"analyze_regulatory_comments", "get_comment_count",
     "synthesize_comment_insights", "identify_regulatory_themes",
     "assess_stakeholder_concerns", "test_api_connection"}

UnknownNames == {"summarize_comments", ""}

DocumentParameters ==
    { EmptyDict,
      [document_id |-> "DOC-1"],
      [document_id |-> "DOC-1", bogus |-> "x"] }

AnalyzeParameters ==
    DocumentParameters
    \cup { [document_id |-> "DOC-1", analysis_depth |-> d] :
             d \in {"basic", "advanced", "comprehensive"} }
    \cup { [document_id |-> "DOC-1", max_comments |-> 1] }

\* the previous result is handed on, as in a tool chain
ResultParameters(previous) ==
    { EmptyDict, [analysis_results |-> previous] }

SynthesizeParameters(previous) ==
    ResultParameters(previous)
    \cup { [analysis_results |-> previous, summary_type |-> t] :
             t \in {"executive", "technical", "stakeholder"} }

(***************************************************************************)
(* Specification of the tool interface: a session of execute_tool calls    *)
(***************************************************************************)
InitTools ==
    /\ comments = <<>>
    /\ analysis = <<>>
    /\ tool_name = ""
    /\ parameters = EmptyDict
    /\ tool_result = EmptyDict
    /\ requests = <<>>
    /\ service \in Remotes
    /\ hash_seed \in HashSeeds
    /\ clock = 0
    /\ raw_response = ""
    /\ parsed = <<>>
    /\ NoInvocations
    /\ NoDocumentAnalysis

\* datetime.now().isoformat() at the current clock reading
Now == LET t == "t" \o Str(clock + 1) IN <<t, t>>

ExecuteTool(name, params) ==
    /\ clock < MaxCalls
    /\ LET returned(outcome) ==
               /\ tool_result' = outcome.value
               /\ requests' = outcome.sent
       IN returned(execute_tool(name, params, service, Now, hash_seed))
    /\ tool_name' = name
    /\ parameters' = params
    /\ clock' = clock + 1
    /\ UNCHANGED <<comments, analysis, service, hash_seed, bridgeVars, sharedVars,
                   generationVars>>

AnalyzeRegulatoryComments ==
    \E params \in AnalyzeParameters :
        ExecuteTool("analyze_regulatory_comments", params)

GetCommentCount ==
    \E params \in DocumentParameters : ExecuteTool("get_comment_count", params)

SynthesizeCommentInsights ==
    \E params \in SynthesizeParameters(tool_result) :
        ExecuteTool("synthesize_comment_insights", params)

IdentifyRegulatoryThemes ==
    \E params \in ResultParameters(tool_result) :
        ExecuteTool("identify_regulatory_themes", params)

AssessStakeholderConcerns ==
    \E params \in ResultParameters(tool_result) :
        ExecuteTool("assess_stakeholder_concerns", params)

TestApiConnection ==
    \E params \in {EmptyDict, [document_id |-> "DOC-1"]} :
        ExecuteTool("test_api_connection", params)

UnknownToolCall ==
    \E name \in UnknownNames : \E params \in DocumentParameters :
        ExecuteTool(name, params)

NextTools ==
    \/ AnalyzeRegulatoryComments
    \/ GetCommentCount
    \/ SynthesizeCommentInsights
    \/ IdentifyRegulatoryThemes
    \/ AssessStakeholderConcerns
    \/ TestApiConnection
    \/ UnknownToolCall

SpecTools == InitTools /\ [][NextTools]_vars

\* the last call had every required keyword and no other
Bound == BindError(Signatures[tool_name], parameters) = ""

\* datetime.now().isoformat() as the last call read it
CallTime == LET t == "t" \o Str(clock) IN <<t, t>>

\* the documents request was answered with an object id
ObjectIdResolved ==
    /\ service.document.status = 200
    /\ "data" \in DOMAIN service.document.body
    /\ "attributes" \in DOMAIN service.document.body.data
    /\ "objectId" \in DOMAIN service.document.body.data.attributes
    /\ service.document.body.data.attributes.objectId # ""

\* the comment source handed the last analyze call an empty list
ZeroCommentsReturned ==
    LET fetched == fetch_comments_by_document_id(
                       service, parameters.document_id,
                       Get(parameters, "max_comments", 30))
    IN ~fetched.raised /\ fetched.value = <<>>

CollectionKeys == {"regulatory_themes", "impact_assessments", "stakeholder_concerns"}

(***************************************************************************)
(* C4 as amended: when the comment source returns zero comments,           *)
(* analyze_regulatory_comments at any analysis_depth returns success:true  *)
(* with the fixed message "No comments found for this document", no error, *)
(* and a minimal analysis: total_comments_analyzed = 0, empty key_points,  *)
(* common_perspectives and stakeholder_types, and no theme, impact or      *)
(* concern collection at all.                                              *)
(***************************************************************************)
C4_ZeroCommentsMinimalAnalysis ==
    (tool_name = "analyze_regulatory_comments" /\ Bound /\ ZeroCommentsReturned)
    => /\ tool_result.success = TRUE
       /\ "error" \notin DOMAIN tool_result
       /\ tool_result.document_id = parameters.document_id
       /\ tool_result.message = "No comments found for this document"
       /\ tool_result.analysis.total_comments_analyzed = 0
       /\ tool_result.analysis.key_points = <<>>
       /\ tool_result.analysis.common_perspectives = <<>>
       /\ tool_result.analysis.stakeholder_types = <<>>
       /\ DOMAIN tool_result.analysis \cap CollectionKeys = {}

C4_Witness ==
    /\ tool_name = "analyze_regulatory_comments"
    /\ Bound
    /\ Get(parameters, "analysis_depth", "advanced") = "comprehensive"
    /\ ObjectIdResolved
    /\ service.comment_list.status = 200
    /\ Len(requests) > 2
    /\ ZeroCommentsReturned
    /\ tool_result.analysis.total_comments_analyzed = 0

\* C4 as stated: the zero-comment analysis holds empty theme, impact and
\* concern collections
C4_EmptyCollectionsPresent ==
    (tool_name = "analyze_regulatory_comments" /\ Bound /\ ZeroCommentsReturned)
    => /\ tool_result.success = TRUE
       /\ tool_result.message = "No comments found for this document"
       /\ tool_result.analysis.total_comments_analyzed = 0
       /\ CollectionKeys \subseteq DOMAIN tool_result.analysis
       /\ tool_result.analysis.regulatory_themes = <<>>
       /\ tool_result.analysis.impact_assessments = <<>>
       /\ DOMAIN tool_result.analysis.stakeholder_concerns = {}

SixToolNames ==
    << "analyze_regulatory_comments", "get_comment_count",
       "synthesize_comment_insights", "identify_regulatory_themes",
       "assess_stakeholder_concerns", "test_api_connection" >>

\* what the operation behind the last call's tool name returns for its
\* parameters
OwnOperation ==
    CASE tool_name = "analyze_regulatory_comments" ->
             _analyze_regulatory_comments(
                 service, CallTime, hash_seed, parameters.document_id,
                 Get(parameters, "max_comments", 30),
                 Get(parameters, "analysis_depth", "advanced")).value
      [] tool_name = "get_comment_count" ->
             _get_comment_count(service, CallTime, parameters.document_id).value
      [] tool_name = "synthesize_comment_insights" ->
             _synthesize_comment_insights(
                 CallTime, parameters.analysis_results,
                 Get(parameters, "summary_type", "executive")).value
      [] tool_name = "identify_regulatory_themes" ->
             _identify_regulatory_themes_tool(
                 CallTime, parameters.analysis_results).value
      [] tool_name = "assess_stakeholder_concerns" ->
             _assess_stakeholder_concerns(
                 CallTime, parameters.analysis_results).value
      [] tool_name = "test_api_connection" ->
             _test_api_connection(service, CallTime).value

(***************************************************************************)
(* C5: after every call, the result is the envelope {success:false,        *)
(* error:"Unknown tool: <name>", available_tools:[the six names]} exactly  *)
(* when the name called is not one of the six names of                     *)
(* get_tool_definitions; the definitions name exactly those six; and a     *)
(* call of one of the six whose parameters bind returns what that name's   *)
(* own operation returns.                                                  *)
(***************************************************************************)
C5_UnknownToolIffNotDefined ==
    clock > 0
    => /\ (tool_result = [success |-> FALSE,
                          error |-> "Unknown tool: " \o tool_name,
                          available_tools |-> SixToolNames])
          <=> (\A i \in 1..Len(SixToolNames) : tool_name # SixToolNames[i])
       /\ [i \in 1..Len(get_tool_definitions) |->
              get_tool_definitions[i].function.name] = SixToolNames
       /\ (tool_name \in ToolNames /\ Bound) => tool_result = OwnOperation

C5_Witness ==
    /\ tool_name = "summarize_comments"
    /\ "document_id" \in DOMAIN parameters
    /\ tool_result.success = FALSE
    /\ tool_result.error = "Unknown tool: summarize_comments"
    /\ Len(tool_result.available_tools) = 6

(***************************************************************************)
(* C9: get_comment_count for a document that regulations.gov answers for   *)
(* but without an object id returns {success:true, document_id,            *)
(* comment_count:0} and no error.                                          *)
(***************************************************************************)
C9_UnresolvedObjectIdCountsZero ==
    (/\ tool_name = "get_comment_count"
     /\ Bound
     /\ service.document.status = 200
     /\ ~ObjectIdResolved)
    => /\ tool_result.success = TRUE
       /\ tool_result.document_id = parameters.document_id
       /\ tool_result.comment_count = 0
       /\ "error" \notin DOMAIN tool_result

C9_Witness ==
    /\ tool_name = "get_comment_count"
    /\ Bound
    /\ service.document.status = 200
    /\ "data" \in DOMAIN service.document.body
    /\ ~ObjectIdResolved
    /\ Len(requests) = 1
    /\ tool_result.comment_count = 0

\* a request of the last get_comment_count call was answered with an error
CountRequestErrored ==
    \/ service.document.status \in ErrorStatuses
    \/ ObjectIdResolved /\ service.comment_list.status \in ErrorStatuses

(***************************************************************************)
(* C10: when a request that get_comment_count sends to regulations.gov     *)
(* errors (no connection, 401, 403, 429, another non-2xx status), the tool *)
(* returns {success:false, error} and no count of 0.                       *)
(***************************************************************************)
C10_RequestErrorSurfaced ==
    (tool_name = "get_comment_count" /\ Bound /\ CountRequestErrored)
    => /\ tool_result.success = FALSE
       /\ "error" \in DOMAIN tool_result
       /\ "comment_count" \notin DOMAIN tool_result

(***************************************************************************)
(* Inputs of the reply parser: replies of the language model               *)
(***************************************************************************)
\* pieces a reply is put together from
MaxPieces == 4

\* 510 characters, longer than the summary a degraded analysis keeps
LongText == ConcatAll([i \in 1..51 |-> "lorem ipsu"])

ReplyPieces ==
    { JsonFence, Fence, "{\"a\":1}", "{}", "{invalid", "plain text", "\n", " " }

LongReplies ==
    { LongText, "{" \o LongText, JsonFence \o LongText \o Fence }

\* a malformed block followed by a well-formed one
TwoBlockReplies ==
    { JsonFence \o "\n{invalid\n" \o Fence \o "\n"
        \o JsonFence \o "\n{\"a\":1}\n" \o Fence,
      JsonFence \o "\n{\"a\":1}\n" \o Fence \o "\n"
        \o JsonFence \o "\n{}\n" \o Fence }

Replies ==
    { ConcatAll(pieces) :
        pieces \in UNION { [1..n -> ReplyPieces] : n \in 0..MaxPieces } }
    \cup LongReplies \cup TwoBlockReplies

(***************************************************************************)
(* Specification of the reply parser: a reply is parsed                    *)
(***************************************************************************)
InitParser ==
    /\ comments = <<>>
    /\ analysis = <<>>
    /\ tool_name = ""
    /\ parameters = EmptyDict
    /\ tool_result = EmptyDict
    /\ requests = <<>>
    /\ service = EmptyDict
    /\ hash_seed = 0
    /\ clock = 0
    /\ raw_response \in Replies
    /\ parsed = <<>>
    /\ NoInvocations
    /\ NoDocumentAnalysis

ParseAnalysisResponse ==
    /\ parsed = <<>>
    /\ parsed' = <<_parse_analysis_response(raw_response)>>
    /\ UNCHANGED <<analyzerVars, toolVars, processVars, raw_response, sharedVars,
                   generationVars>>

NextParser == ParseAnalysisResponse

SpecParser == InitParser /\ [][NextParser]_vars

\* positions of the JSON fence markers in the reply
JsonFences == Occurrences(raw_response, JsonFence)

\* where the text after the first JSON fence marker starts
BlockStart == SetMin(JsonFences) + Len(JsonFence)

\* fences at or after the start of the block
ClosingFences == {i \in Occurrences(raw_response, Fence) : i >= BlockStart}

\* the reply holds a JSON fence marker, a later closing fence, and text
\* between them
UsableBlock ==
    /\ JsonFences # {}
    /\ ClosingFences # {}
    /\ SetMin(ClosingFences) > BlockStart

\* the text between the first JSON fence marker and the next fence, trimmed
BlockText == Strip(Slice(raw_response, BlockStart, SetMin(ClosingFences)))

\* the reply as a whole is taken for JSON
BareSelected == ~UsableBlock /\ StartsWith(Strip(raw_response), "{")

\* the JSON documents the reply pieces can form, and their contents
KnownDocuments ==
    [text \in {"{\"a\":1}", "{}"} |->
        IF text = "{}" THEN EmptyDict ELSE [a |-> 1]]

(***************************************************************************)
(* C6 as amended: when the first JSON fence marker of the reply is         *)
(* followed by a closing fence, with text between them that is valid JSON, *)
(* the parser                                                              *)
(* returns exactly what that block parses to, with nothing added: a block  *)
(* holding {"a":1} yields {"a":1}.  Later blocks are never looked at.      *)
(***************************************************************************)
C6_StrictBlockParsedExactly ==
    (/\ parsed # <<>>
     /\ UsableBlock
     /\ ~json_loads(BlockText).raised)
    => /\ ~parsed[1].raised
       /\ parsed[1].value = json_loads(BlockText).value
       /\ BlockText \in DOMAIN KnownDocuments
       /\ parsed[1].value = KnownDocuments[BlockText]

C6_Witness ==
    /\ parsed # <<>>
    /\ UsableBlock
    /\ BlockText = "{\"a\":1}"
    /\ Cardinality(JsonFences) = 2
    /\ parsed[1].value = [a |-> 1]

\* the text between the JSON fence marker at i and the next fence, trimmed
BlockTextAt(i) ==
    LET start == i + Len(JsonFence)
        closing == {j \in Occurrences(raw_response, Fence) : j >= start}
    IN IF closing = {} THEN ""
       ELSE Strip(Slice(raw_response, start, SetMin(closing)))

\* the JSON fence markers whose block holds valid JSON
ValidBlocks == {i \in JsonFences : ~json_loads(BlockTextAt(i)).raised}

(***************************************************************************)
(* C6 as stated: when the reply holds any JSON fence marker followed by a  *)
(* closing fence with valid JSON between them, the parser returns exactly  *)
(* what the first such block parses to.                                    *)
(***************************************************************************)
C6_FirstValidBlockParsed ==
    (parsed # <<>> /\ ValidBlocks # {})
    => /\ ~parsed[1].raised
       /\ parsed[1].value = json_loads(BlockTextAt(SetMin(ValidBlocks))).value

(***************************************************************************)
(* C7: when the reply has no usable JSON block and, trimmed, does not      *)
(* start with "{", the parser returns the degraded analysis: confidence    *)
(* score 0.5, overall sentiment "unknown", zero comments analysed, and no  *)
(* parse_error field.                                                      *)
(***************************************************************************)
C7_DegradedOnPlainText ==
    (/\ parsed # <<>>
     /\ ~UsableBlock
     /\ ~StartsWith(Strip(raw_response), "{"))
    => /\ ~parsed[1].raised
       /\ parsed[1].value.confidence_score = 50
       /\ parsed[1].value.sentiment_analysis.overall_sentiment = "unknown"
       /\ parsed[1].value.total_comments_analyzed = 0
       /\ parsed[1].value.raw_response = raw_response
       /\ "parse_error" \notin DOMAIN parsed[1].value

C7_Witness ==
    /\ parsed # <<>>
    /\ JsonFences # {}
    /\ ClosingFences # {}
    /\ ~UsableBlock
    /\ Contains(raw_response, "plain text")
    /\ parsed[1].value.confidence_score = 50

(***************************************************************************)
(* C8: when the JSON taken from the fenced block, or from the whole reply  *)
(* that starts with "{", is malformed, the parser does not raise: it       *)
(* returns the degraded shape with confidence score 0.3 and a non-empty    *)
(* parse_error holding the JSON decoder's message; for the reply           *)
(* "{invalid" that message is the decoder's complaint about character 1.   *)
(***************************************************************************)
C8_MalformedJsonReported ==
    (/\ parsed # <<>>
     /\ \/ UsableBlock /\ json_loads(BlockText).raised
        \/ BareSelected /\ json_loads(raw_response).raised)
    => /\ ~parsed[1].raised
       /\ parsed[1].value.confidence_score = 30
       /\ parsed[1].value.sentiment_analysis.overall_sentiment = "unknown"
       /\ parsed[1].value.total_comments_analyzed = 0
       /\ "parse_error" \in DOMAIN parsed[1].value
       /\ parsed[1].value.parse_error # ""
       /\ parsed[1].value.parse_error =
             IF UsableBlock THEN json_loads(BlockText).error
             ELSE json_loads(raw_response).error
       /\ raw_response = "{invalid"
          => parsed[1].value.parse_error =
                "Expecting property name enclosed in double quotes: line 1 column 2 (char 1)"

C8_Witness ==
    /\ parsed # <<>>
    /\ raw_response = "{invalid"
    /\ parsed[1].value.confidence_score = 30
    /\ parsed[1].value.parse_error # ""

(***************************************************************************)
(* Envelopes of the tool interface                                         *)
(***************************************************************************)
(***************************************************************************)
(* C11: after every call of execute_tool, whatever the tool name and the   *)
(* parameters (an empty or non-success analysis_results payload included), *)
(* the call has returned a mapping, and the mapping has a key success      *)
(* whose value is a boolean.                                               *)
(***************************************************************************)
C11_AlwaysSuccessBoolean ==
    clock > 0
    => /\ "success" \in DOMAIN tool_result
       /\ tool_result.success \in BOOLEAN

\* the keywords of the last call did not bind: a TypeError was raised at
\* the call inside execute_tool
BindRaised == tool_name \in ToolNames /\ ~Bound

\* what the comment source did for the last analyze call
LastFetch ==
    fetch_comments_by_document_id(service, parameters.document_id,
                                  Get(parameters, "max_comments", 30))

\* the comment source raised during the last analyze call
SourceRaised ==
    /\ tool_name = "analyze_regulatory_comments"
    /\ Bound
    /\ LastFetch.raised

\* the connection test of the API client raised during the last call
ConnectionTestRaised ==
    /\ tool_name = "test_api_connection"
    /\ Bound
    /\ test_api_connection(service).raised

MissingRequired ==
    /\ tool_name \in ToolNames
    /\ \E i \in 1..Len(get_tool_definitions) :
          /\ get_tool_definitions[i].function.name = tool_name
          /\ \E k \in 1..Len(get_tool_definitions[i].function.parameters.required) :
                get_tool_definitions[i].function.parameters.required[k]
                    \notin DOMAIN parameters

(***************************************************************************)
(* C13: a call of a tool without one of its required parameters            *)
(* (document_id for analyze_regulatory_comments and get_comment_count,     *)
(* analysis_results for the three reshaping tools) returns an envelope     *)
(* with success:false and an error text, and sends no request to           *)
(* regulations.gov.                                                        *)
(***************************************************************************)
C13_MissingParameterEnvelope ==
    MissingRequired
    => /\ tool_result.success = FALSE
       /\ "error" \in DOMAIN tool_result
       /\ tool_result.error # ""
       /\ requests = <<>>

\* document_id left out while regulations.gov would have answered
C13_Witness ==
    /\ MissingRequired
    /\ tool_name = "analyze_regulatory_comments"
    /\ parameters = EmptyDict
    /\ service = Healthy
    /\ requests = <<>>
    /\ tool_result.error = "GPTOSSToolInterface._analyze_regulatory_comments() missing 1 required positional argument: 'document_id'"

(***************************************************************************)
(* Specification of one GPTOSSToolInterface shared by several callers:     *)
(* a caller enters execute_tool, and returns from it later, while another  *)
(* caller may be inside execute_tool of the same interface.                *)
(***************************************************************************)
\* invocations of execute_tool on the shared interface
MaxInvocations == 2

StoreOne ==
    << StoredComment("c1", "DOC-1", "We support the cost.", "Jane Doe", None) >>

SharedRemotes ==
    { RemoteWithStore(StoreOne, {}),
      [RemoteWithStore(StoreOne, {}) EXCEPT
           !.comment_list = Response(500, EmptyDict)],
      NoComments }

Invocation(name, params) == [name |-> name, params |-> params]

SharedCalls ==
    { Invocation("analyze_regulatory_comments", [document_id |-> "DOC-1"]),
      Invocation("analyze_regulatory_comments", EmptyDict),
      Invocation("get_comment_count", [document_id |-> "DOC-1"]),
      Invocation("synthesize_comment_insights",
                 [analysis_results |-> [success |-> FALSE, error |-> "boom"]]),
      Invocation("summarize_comments", EmptyDict),
      Invocation("test_api_connection", EmptyDict) }

InitShared ==
    /\ comments = <<>>
    /\ analysis = <<>>
    /\ tool_name = ""
    /\ parameters = EmptyDict
    /\ tool_result = EmptyDict
    /\ requests = <<>>
    /\ service \in SharedRemotes
    /\ hash_seed \in HashSeeds
    /\ clock = 0
    /\ raw_response = ""
    /\ parsed = <<>>
    /\ tables = GPTOSSAnalyzer
    /\ in_flight = [c \in Callers |-> <<>>]
    /\ completed = <<>>
    /\ NoDocumentAnalysis

\* callers inside execute_tool
Inside == {c \in Callers : in_flight[c] # <<>>}

\* a caller enters execute_tool
Invoke(c) ==
    /\ in_flight[c] = <<>>
    /\ Len(completed) + Cardinality(Inside) < MaxInvocations
    /\ \E call \in SharedCalls : in_flight' = [in_flight EXCEPT ![c] = <<call>>]
    /\ UNCHANGED <<analyzerVars, toolVars, processVars, bridgeVars, tables,
                   completed, generationVars>>

\* a return that repeats the failure of an earlier invocation, if there
\* was one
CompleteAfterFailure(c) ==
    /\ in_flight[c] # <<>>
    /\ LET failures == SelectSeq(completed, LAMBDA done : ~done.result.success)
           finished(call, outcome) ==
               completed' = Append(completed,
                   [caller |-> c, name |-> call.name, params |-> call.params,
                    result |-> IF failures # <<>> THEN failures[1].result
                               ELSE outcome.value,
                    sent |-> outcome.sent, now |-> Now,
                    beside |-> Inside \ {c}])
       IN finished(in_flight[c][1],
                   execute_tool(in_flight[c][1].name, in_flight[c][1].params,
                                service, Now, hash_seed))
    /\ in_flight' = [in_flight EXCEPT ![c] = <<>>]
    /\ clock' = clock + 1
    /\ UNCHANGED <<analyzerVars, tool_name, parameters, tool_result, requests,
                   service, processVars, bridgeVars, tables, generationVars>>

\* the caller returns from execute_tool: no statement on the way assigns
\* an attribute of the interface, of its analyzer or of its API client
Complete(c) ==
    /\ in_flight[c] # <<>>
    /\ LET finished(call, outcome) ==
               completed' = Append(completed,
                   [caller |-> c, name |-> call.name, params |-> call.params,
                    result |-> outcome.value, sent |-> outcome.sent,
                    now |-> Now, beside |-> Inside \ {c}])
       IN finished(in_flight[c][1],
                   execute_tool(in_flight[c][1].name, in_flight[c][1].params,
                                service, Now, hash_seed))
    /\ in_flight' = [in_flight EXCEPT ![c] = <<>>]
    /\ clock' = clock + 1
    /\ UNCHANGED <<analyzerVars, tool_name, parameters, tool_result, requests,
                   service, processVars, bridgeVars, tables, generationVars>>

NextShared == \E c \in Callers : Invoke(c) \/ Complete(c)

SpecShared == InitShared /\ [][NextShared]_vars

\* the same invocation issued on an interface of its own, against the same
\* answers of regulations.gov
IssuedAlone(done) ==
    execute_tool(done.name, done.params, service, done.now, hash_seed)

DefaultGptConfig ==
    [gptHost |-> "10.0.4.52", gptPort |-> "11434", gptModel |-> "gpt-oss:20b"]

\* the address analyze_document_comments posts to
GenerateUrl(gpt_config) ==
    "http://" \o Get(gpt_config, "gptHost", "10.0.4.52") \o ":"
        \o Get(gpt_config, "gptPort", "11434") \o "/api/generate"

\* the dataclass, a field that is not given being None
CommentAnalysisResult(success, document_id, analysed, error, raw) ==
    [success |-> success, document_id |-> document_id, analysis |-> analysed,
     error |-> error, raw_response |-> raw]

\* requests.post raised: the library chose the message
PostRaised(message) == [raised |-> TRUE, error |-> message]

\* requests.post returned: the status, response.text and the outcome of
\* response.json()
PostAnswered(status, text, json) ==
    [raised |-> FALSE, status |-> status, text |-> text, json |-> json]

\* result.get('response', '')
ReplyOf(answer) == Get(answer.json.value, "response", "")

\* as analyze_document_comments below, a reply that is no JSON being an error
analyze_document_comments_strict(gpt_config, answer, document_id) ==
    LET url == GenerateUrl(gpt_config)
        failed(error) ==
            [result |-> CommentAnalysisResult(FALSE, document_id, None, error,
                                              None),
             posts |-> <<url>>]
        read(reply, attempt) ==
            IF attempt.raised THEN failed(attempt.error)
            ELSE [result |-> CommentAnalysisResult(TRUE, document_id,
                                                   attempt.value, None, reply),
                  posts |-> <<url>>]
    IN IF answer.raised THEN failed(answer.error)
       ELSE IF ~(answer.status < 400)
       THEN IF answer.status = 0 \/ answer.status >= 500
            THEN failed("Cannot connect to GPT model at " \o url
                          \o ". Please check if the model is running.")
            ELSE failed("HTTP " \o Str(answer.status) \o ": " \o answer.text)
       ELSE IF answer.json.raised THEN failed(answer.json.error)
       ELSE read(ReplyOf(answer), ParseAttempt(ReplyOf(answer)))

\* one POST to the endpoint; whatever is raised on the way becomes the error
\* of a result with success false
analyze_document_comments(gpt_config, answer, document_id) ==
    LET url == GenerateUrl(gpt_config)
        failed(error) ==
            [result |-> CommentAnalysisResult(FALSE, document_id, None, error,
                                              None),
             posts |-> <<url>>]
        read(reply, analysed) ==
            [result |-> CommentAnalysisResult(TRUE, document_id, analysed.value,
                                              None, reply),
             posts |-> <<url>>]
    IN IF answer.raised THEN failed(answer.error)
       ELSE IF ~(answer.status < 400)
       THEN IF answer.status = 0 \/ answer.status >= 500
            THEN failed("Cannot connect to GPT model at " \o url
                          \o ". Please check if the model is running.")
            ELSE failed("HTTP " \o Str(answer.status) \o ": " \o answer.text)
       ELSE IF answer.json.raised THEN failed(answer.json.error)
       ELSE read(ReplyOf(answer), _parse_analysis_response(ReplyOf(answer)))

(***************************************************************************)
(* Inputs of the bridge: configurations and answers of the endpoint        *)
(***************************************************************************)
\* invocations of analyze_document_comments in one run
MaxAnalyses == 1

GptConfigs ==
    { DefaultGptConfig, EmptyDict,
      [gptHost |-> "localhost", gptPort |-> "8080", gptModel |-> "llama3"] }

\* messages of the exceptions requests.post raises when the endpoint cannot
\* be reached
UnreachableMessages(gpt_config) ==
    { "HTTPConnectionPool(host='" \o Get(gpt_config, "gptHost", "10.0.4.52")
        \o "', port=" \o Get(gpt_config, "gptPort", "11434")
        \o "): Max retries exceeded with url: /api/generate",
      "('Connection aborted.', RemoteDisconnected('Remote end closed connection without response'))" }

FailureStatuses == { 400, 404, 500, 503 }

FailureTexts == { "", "model 'gpt-oss:20b' not found" }

FailingAnswers(gpt_config) ==
    { PostRaised(m) : m \in UnreachableMessages(gpt_config) }
    \cup { PostAnswered(status, text, Raise("Expecting value: line 1 column 1 (char 0)", <<>>)) :
             status \in FailureStatuses, text \in FailureTexts }

\* answers with a status of success and a JSON object that holds a reply
SuccessStatuses == { 200, 201 }

ReplyAnswers ==
    { PostAnswered(200, "", Return([response |-> reply], <<>>)) :
        reply \in Replies }
    \cup { PostAnswered(status, "", Return([response |-> reply], <<>>)) :
             status \in SuccessStatuses,
             reply \in LongReplies \cup TwoBlockReplies }

\* answers with a status of success and a body that is no JSON, or a JSON
\* object without a reply
BodyAnswers ==
    { PostAnswered(200, "", Raise("Expecting value: line 1 column 1 (char 0)", <<>>)),
      PostAnswered(200, "{}", Return(EmptyDict, <<>>)) }

\* every reply under the default configuration, the other answers under
\* every configuration
Generations ==
    { [gpt_config |-> DefaultGptConfig, answer |-> a] : a \in ReplyAnswers }
    \cup UNION { { [gpt_config |-> c, answer |-> a] :
                     a \in FailingAnswers(c) \cup BodyAnswers
                             \cup { PostAnswered(200, "",
                                        Return([response |-> reply], <<>>)) :
                                      reply \in TwoBlockReplies } } :
                   c \in GptConfigs }

(***************************************************************************)
(* Specification of the bridge: documents are analysed through an endpoint *)
(* that keeps answering the same way                                       *)
(***************************************************************************)
InitBridge ==
    /\ comments = <<>>
    /\ analysis = <<>>
    /\ tool_name = ""
    /\ parameters = EmptyDict
    /\ tool_result = EmptyDict
    /\ requests = <<>>
    /\ service = EmptyDict
    /\ hash_seed = 0
    /\ clock = 0
    /\ raw_response = ""
    /\ parsed = <<>>
    /\ NoInvocations
    /\ generation \in Generations
    /\ posts = <<>>
    /\ document_result = <<>>

AnalyzeDocumentComments ==
    /\ Len(document_result) < MaxAnalyses
    /\ \E out \in { analyze_document_comments(generation.gpt_config,
                                                generation.answer, "DOC-1") } :
          /\ document_result' = Append(document_result, out.result)
          /\ posts' = posts \o out.posts
    /\ UNCHANGED <<analyzerVars, toolVars, processVars, bridgeVars, sharedVars,
                   generation>>

NextBridge == AnalyzeDocumentComments

SpecBridge == InitBridge /\ [][NextBridge]_vars

\* the results returned so far
DocumentResults == { document_result[i] : i \in DOMAIN document_result }

\* the endpoint could not be reached, or answered with a status outside 2xx
EndpointFailed ==
    \/ generation.answer.raised
    \/ ~(generation.answer.status \in 200..299)

\* the message tells which endpoint was called: its address, or its host
\* and port
NamesEndpoint(message) ==
    \/ Contains(message, GenerateUrl(generation.gpt_config))
    \/ /\ Contains(message, Get(generation.gpt_config, "gptHost", "10.0.4.52"))
       /\ Contains(message, Get(generation.gpt_config, "gptPort", "11434"))

\* C15: when the generation endpoint is unreachable or answers with a status
\* outside 2xx, analyze_document_comments returns a result with success
\* false, no analysis, and an error message that identifies the endpoint
C15_EndpointFailureNamesEndpoint ==
    \A r \in DocumentResults :
        EndpointFailed =>
            /\ r.success = FALSE
            /\ r.analysis = None
            /\ NamesEndpoint(r.error)

\* the endpoint answered with a status of success and a JSON object that
\* holds a reply text
TextReply ==
    /\ ~generation.answer.raised
    /\ generation.answer.status \in 200..299
    /\ ~generation.answer.json.raised
    /\ "response" \in DOMAIN generation.answer.json.value

\* the reply text of the endpoint
ReplyText == generation.answer.json.value.response

\* C17: whenever the generation endpoint answers 2xx with a reply text,
\* analyze_document_comments returns success true with the reply as
\* raw_response and a structured analysis, for every reply text: the JSON the
\* reply holds, or, when the reply is no valid JSON, a degraded analysis that
\* keeps the reply
C17_ReplyAlwaysSucceeds ==
    \A r \in DocumentResults :
        TextReply =>
            LET holds(attempt) ==
                    /\ r.success = TRUE
                    /\ r.error = None
                    /\ r.raw_response = ReplyText
                    /\ ~attempt.raised => r.analysis = attempt.value
                    /\ attempt.raised =>
                        /\ r.analysis.parse_error = attempt.error
                        /\ r.analysis.raw_response = ReplyText
                        /\ r.analysis.confidence_score = 30
                        /\ r.analysis.total_comments_analyzed = 0
            IN holds(ParseAttempt(ReplyText))

\* a reply that opens a JSON object and never closes it is answered with
\* success and the analysis that reports the decoding error
C17_Witness ==
    /\ TextReply
    /\ ReplyText = "{invalid"
    /\ document_result # <<>>
    /\ document_result[1].success = TRUE
    /\ document_result[1].raw_response = "{invalid"
    /\ document_result[1].analysis.confidence_score = 30
    /\ document_result[1].analysis.summary
         = "Analysis completed but response could not be parsed as JSON"
    /\ posts = <<"http://10.0.4.52:11434/api/generate">>

(***************************************************************************)
(* Requests and their answers                                              *)
(***************************************************************************)
\* what regulations.gov answers to a request of the last invocation
AnswerTo(url) ==
    IF StartsWith(url, "documents/") THEN service.document
    ELSE IF StartsWith(url, "comments/")
    THEN service.comment_detail[Slice(url, Len("comments/"), Len(url))]
    ELSE IF StartsWith(url, "comments?") THEN service.comment_list
    ELSE IF StartsWith(url, "dockets") THEN service.dockets
    ELSE service.agency_comments

\* the request got no response, or a response with an error status
RequestFailed(url) == AnswerTo(url).status = 0 \/ AnswerTo(url).status >= 400

\* C16: no operation retries: an analyze_document_comments invocation sends
\* at most one request to the generation endpoint, a tool invocation sends
\* each comment-source request at most once, and a failed request is
\* followed directly by the error result, with no further attempt
C16_NoRetryFailureSurfaces ==
    /\ Len(posts) <= Len(document_result)
    /\ \A i, j \in DOMAIN requests : requests[i] = requests[j] => i = j
    /\ \A i \in DOMAIN requests :
          RequestFailed(requests[i]) =>
              /\ i = Len(requests)
              /\ tool_result.success = FALSE

(***************************************************************************)
(* Runs of the analyzer compared                                           *)
(***************************************************************************)
\* C18: analyze_comments_advanced is deterministic: a second run on the same
\* comment list, at whatever time and under whatever hash seed, returns the
\* result of the first in every field, the capped lists and their order
\* included
C18_RunsIdentical ==
    \A r \in DOMAIN analysis :
        \A now \in Times, seed \in HashSeeds :
            analyze_comments_advanced(comments, now, seed) = analysis[r]

(***************************************************************************)
(* Stakeholder types                                                       *)
(***************************************************************************)
\* comments with text that carry an organization name
OrganizationComments ==
    {i \in 1..Len(comments) :
        /\ comments[i].comment_text # ""
        /\ comments[i].organization_name \notin {None, ""}}

\* comments with text that carry none
IndividualComments ==
    {i \in 1..Len(comments) :
        /\ comments[i].comment_text # ""
        /\ comments[i].organization_name \in {None, ""}}

OrganizationsEntry == "Organizations (" \o Str(Cardinality(OrganizationComments)) \o ")"

IndividualsEntry == "Individuals (" \o Str(Cardinality(IndividualComments)) \o ")"

\* C19: stakeholder_types holds one entry '<Type>s (<count>)' per stakeholder
\* type present, a comment with text counting as organization exactly when
\* it has an organization name and as individual otherwise; the entries are
\* ordered by count, descending, and the counts add up to the number of
\* comments with text; two organization comments give ['Organizations (2)']
C19_StakeholderTypesCounted ==
    \A r \in DOMAIN analysis :
        LET types == analysis[r].stakeholder_types
            orgs == Cardinality(OrganizationComments)
            inds == Cardinality(IndividualComments)
        IN /\ orgs + inds = NumTexts
           /\ { types[i] : i \in DOMAIN types }
                = (IF orgs > 0 THEN {OrganizationsEntry} ELSE {})
                    \cup (IF inds > 0 THEN {IndividualsEntry} ELSE {})
           /\ Len(types) = (IF orgs > 0 THEN 1 ELSE 0) + (IF inds > 0 THEN 1 ELSE 0)
           /\ (orgs > inds /\ inds > 0)
                => types = <<OrganizationsEntry, IndividualsEntry>>
           /\ (inds > orgs /\ orgs > 0)
                => types = <<IndividualsEntry, OrganizationsEntry>>
           /\ (orgs = 2 /\ inds = 0) => types = <<"Organizations (2)">>

\* an organization comment first, more individual comments after it: the
\* individuals are listed first
C19_Witness ==
    /\ Len(analysis) = 1
    /\ Len(comments) = 4
    /\ comments[1].organization_name = "Acme Corp"
    /\ OrganizationComments = {1}
    /\ IndividualComments = {2, 3, 4}
    /\ analysis[1].stakeholder_types = <<"Individuals (3)", "Organizations (1)">>

(***************************************************************************)
(* The empty corpus                                                        *)
(***************************************************************************)
\* C20: on an empty corpus (no comments, or only comments without text)
\* every extractor returns an empty output: themes, impacts, the three
\* concern buckets, recommendations, the four issue lists, key points and
\* perspectives
C20_EmptyCorpusEmptyOutputs ==
    \A r \in DOMAIN analysis :
        NumTexts = 0 =>
            /\ analysis[r].regulatory_themes = <<>>
            /\ analysis[r].impact_assessments = <<>>
            /\ analysis[r].stakeholder_concerns.organizations = <<>>
            /\ analysis[r].stakeholder_concerns.individuals = <<>>
            /\ analysis[r].stakeholder_concerns.common = <<>>
            /\ analysis[r].recommendation_patterns = <<>>
            /\ analysis[r].technical_issues = <<>>
            /\ analysis[r].economic_concerns = <<>>
            /\ analysis[r].timeline_concerns = <<>>
            /\ analysis[r].implementation_challenges = <<>>
            /\ analysis[r].key_points = <<>>
            /\ analysis[r].common_perspectives = <<>>

(***************************************************************************)
(* Verdicts of the sentiment and perspective classification                *)
(***************************************************************************)
\* the texts of the comment list, joined and lower-cased
AllText == Lower(Join(_prepare_comment_data(comments).texts, " "))

\* a exceeds b by at least half of b
DominatesByHalf(a, b) == 2 * a >= 3 * b /\ a > b

\* the label that the rule of dominance by at least 50% gives
Verdict(a, b, first, second, mixed) ==
    IF DominatesByHalf(a, b) THEN first
    ELSE IF DominatesByHalf(b, a) THEN second
    ELSE mixed

\* C21: sentiment and perspectives follow the 1.5x dominance rule: a clear
\* verdict whenever one count is larger than the other and at least 1.5
\* times the other, the mixed label otherwise, also when both counts are 0;
\* exactly one of the three labels is returned
C21_DominanceByHalf ==
    \A r \in DOMAIN analysis :
        /\ analysis[r].sentiment_summary
             = Verdict(KeywordFrequency(AllText, positive_words),
                       KeywordFrequency(AllText, negative_words),
                       "Predominantly positive sentiment",
                       "Predominantly negative sentiment",
                       "Mixed sentiment with both support and concerns")
        /\ analysis[r].common_perspectives[1]
             = Verdict(KeywordFrequency(AllText, support_words),
                       KeywordFrequency(AllText, opposition_words),
                       "Generally supportive of the proposed regulation",
                       "Generally concerned about the proposed regulation",
                       "Mixed perspectives with both support and concerns")

(***************************************************************************)
(* Recommendations                                                         *)
(***************************************************************************)
\* the texts the analyzer keeps
Texts == _prepare_comment_data(comments).texts

\* the words of a recommendation phrase
PhraseWords(pattern) == SelectSeq(pattern.words, LAMBDA w : w # "")

\* the sentences of a text that share a word with the phrase
SharingSentences(text, pattern) ==
    SelectSeq(SplitSentences(text), LAMBDA sentence :
        \E w \in 1..Len(PhraseWords(pattern)) :
            Contains(Lower(sentence), PhraseWords(pattern)[w]))

\* the (text, phrase) pairs where the lower-cased text matches the phrase
PhraseMatches ==
    { m \in (1..Len(Texts)) \X (1..Len(recommendation_patterns)) :
        Search(recommendation_patterns[m[2]], Lower(Texts[m[1]])) }

\* the first sharing sentence of every match, trimmed
ExpectedRecommendations ==
    { Strip(SharingSentences(Texts[m[1]], recommendation_patterns[m[2]])[1]) :
        m \in PhraseMatches }

\* C22: for every comment whose lower-cased text matches a recommendation
\* phrase the extractor keeps the first sentence that shares a word with
\* the phrase, so the result is non-empty whenever some comment matches; the
\* result has no duplicates and at most 10 entries
C22_MatchedRecommendationKept ==
    \A r \in DOMAIN analysis :
        LET found == analysis[r].recommendation_patterns
        IN /\ Len(found) <= 10
           /\ \A i, j \in DOMAIN found : found[i] = found[j] => i = j
           /\ { found[i] : i \in DOMAIN found } \subseteq ExpectedRecommendations
           /\ PhraseMatches # {} => found # <<>>
           /\ Cardinality(ExpectedRecommendations) <= 10
                => { found[i] : i \in DOMAIN found } = ExpectedRecommendations

(***************************************************************************)
(* Issue lists                                                             *)
(***************************************************************************)
\* a list of at most 5 distinct trimmed sentences that each hold a keyword,
\* not empty when some text holds a keyword
IssueList(found, keywords) ==
    /\ Len(found) <= 5
    /\ \A i, j \in DOMAIN found : found[i] = found[j] => i = j
    /\ \A i \in DOMAIN found :
          /\ Strip(found[i]) = found[i]
          /\ AnyKeywordIn(Lower(found[i]), keywords)
    /\ (\E t \in DOMAIN Texts : AnyKeywordIn(Lower(Texts[t]), keywords))
          => found # <<>>

\* C23: the technical, economic, timeline and implementation extractors each
\* return a duplicate-free list of at most 5 trimmed sentences, every one of
\* which contains a keyword of the extractor's list, case-insensitively; the
\* list is non-empty whenever some comment text contains such a keyword
C23_IssueListsCappedKeyworded ==
    \A r \in DOMAIN analysis :
        /\ IssueList(analysis[r].technical_issues, technical_keywords)
        /\ IssueList(analysis[r].economic_concerns, economic_keywords)
        /\ IssueList(analysis[r].timeline_concerns, timeline_keywords)
        /\ IssueList(analysis[r].implementation_challenges, challenge_keywords)

\* six sentences on phases in one comment: five of them are kept
C23_Witness ==
    /\ Len(analysis) = 1
    /\ Len(comments) = 2
    /\ comments[1].comment_text = "phase a. Phase b! phase c? phase d. phase e. phase f"
    /\ comments[2].comment_text = "The public timeline is unclear"
    /\ Len(analysis[1].timeline_concerns) = 5
    /\ \E i \in 1..5 : analysis[1].timeline_concerns[i] = "Phase b"
    /\ analysis[1].implementation_challenges = <<"The public timeline is unclear">>

(***************************************************************************)
(* Concern buckets                                                         *)
(***************************************************************************)
\* the comments with text, in the order given
Kept == SelectSeq(comments, LAMBDA c : c.comment_text # "")

ConcernTitles ==
    <<"Cost Concerns", "Timeline Concerns", "Complexity Concerns",
      "Feasibility Concerns">>

\* the strings of the matches of one comment, in the order of the patterns
ConcernsOf(c) ==
    ConcatSeqs([p \in 1..Len(concern_patterns) |->
        IF AnyKeywordIn(Lower(c.comment_text), concern_patterns[p].keywords)
        THEN <<ConcernTitles[p] \o ": "
                 \o SubSeq(c.comment_text, 1, Min(100, Len(c.comment_text)))
                 \o "...">>
        ELSE <<>>])

\* the strings of the comments with (TRUE) or without (FALSE) an
\* organization name
BucketOf(organization) ==
    ConcatSeqs([i \in 1..Len(Kept) |->
        IF (Kept[i].organization_name \notin {None, ""}) = organization
        THEN ConcernsOf(Kept[i]) ELSE <<>>])

\* C24: each (comment, concern pattern) match adds the string
\* '<Concern Type Title>: <first 100 characters of the comment>...' to the
\* organizations bucket if the comment has an organization name and to the
\* individuals bucket otherwise; the common bucket never holds a string
\* twice, holds every string of the two other buckets, and nothing else
C24_ConcernsRoutedCommonDistinct ==
    \A r \in DOMAIN analysis :
        LET concerns == analysis[r].stakeholder_concerns
            elements(q) == { q[i] : i \in DOMAIN q }
        IN /\ concerns.organizations = BucketOf(TRUE)
           /\ concerns.individuals = BucketOf(FALSE)
           /\ \A i, j \in DOMAIN concerns.common :
                 concerns.common[i] = concerns.common[j] => i = j
           /\ elements(concerns.common)
                = elements(concerns.organizations) \cup elements(concerns.individuals)

\* an organization's comment of more than 100 characters and an
\* individual's short one
C24_Witness ==
    /\ Len(analysis) = 1
    /\ Len(comments) = 2
    /\ comments[1].comment_text = LongComment
    /\ analysis[1].stakeholder_concerns.organizations
         = << "Cost Concerns: " \o SubSeq(LongComment, 1, 100) \o "...",
              "Complexity Concerns: " \o SubSeq(LongComment, 1, 100) \o "..." >>
    /\ analysis[1].stakeholder_concerns.individuals
         = << "Cost Concerns: Cost is a burden...." >>
    /\ Len(analysis[1].stakeholder_concerns.common) = 3

(***************************************************************************)
(* Impact assessments                                                      *)
(***************************************************************************)
\* positions (from 1) among the comments with text of those that mention a
\* keyword of the category
Mentioning(category) ==
    { i \in 1..Len(Kept) :
        AnyKeywordIn(Lower(Kept[i].comment_text), category.keywords) }

\* the category of the table with the given name
CategoryNamed(name) ==
    impact_categories[CHOOSE c \in 1..Len(impact_categories) :
                          impact_categories[c].name = name]

\* C25: for every emitted impact category, mention_count is the number of
\* comments (not of keyword occurrences) whose text contains a keyword of
\* the category, affected_comments lists exactly those comments as strictly
\* increasing indices into the texts (the comments without text skipped),
\* mention_count = len(affected_comments) > 0, and impact_score is
\* mention_count by the number of texts, in (0, 1]; a category is emitted
\* only if it is mentioned
C25_ImpactCountsComments ==
    \A r \in DOMAIN analysis :
        LET impacts == analysis[r].impact_assessments
        IN /\ { impacts[e].impact_type : e \in DOMAIN impacts }
                = { impact_categories[c].name :
                      c \in { k \in 1..Len(impact_categories) :
                                Mentioning(impact_categories[k]) # {} } }
           /\ \A e \in DOMAIN impacts :
                 LET affected == impacts[e].affected_comments
                     mentioning == Mentioning(CategoryNamed(impacts[e].impact_type))
                 IN /\ impacts[e].mention_count = Cardinality(mentioning)
                    /\ { affected[i] : i \in DOMAIN affected }
                         = { i - 1 : i \in mentioning }
                    /\ \A i \in 1..(Len(affected) - 1) : affected[i] < affected[i + 1]
                    /\ impacts[e].mention_count = Len(affected)
                    /\ Len(affected) > 0
                    /\ impacts[e].impact_score
                         = [num |-> impacts[e].mention_count, den |-> Len(Kept)]
                    /\ impacts[e].mention_count <= Len(Kept)

\* a comment without text before a comment that names the public twice: one
\* mention, at index 0 of the texts
C25_Witness ==
    /\ Len(analysis) = 1
    /\ Len(comments) = 2
    /\ comments[1].comment_text = ""
    /\ comments[2].comment_text = "Public users and public agencies"
    /\ analysis[1].impact_assessments
         = << [impact_type |-> "consumer_impact", mention_count |-> 1,
               affected_comments |-> <<0>>,
               impact_score |-> [num |-> 1, den |-> 1]] >>

\* position of an impact category in the table
CategoryIndex(name) ==
    CHOOSE c \in 1..Len(impact_categories) : impact_categories[c].name = name

\* C26: the impact_assessments list of every result is sorted by
\* impact_score, descending, equal scores in the order of the category table
\* (industry, consumer, government, environmental)
C26_ImpactsSortedByScore ==
    \A r \in DOMAIN analysis :
        LET impacts == analysis[r].impact_assessments
        IN \A e \in 1..(Len(impacts) - 1) :
              /\ ~RatLess(impacts[e].impact_score, impacts[e + 1].impact_score)
              /\ ~RatLess(impacts[e + 1].impact_score, impacts[e].impact_score)
                   => CategoryIndex(impacts[e].impact_type)
                        < CategoryIndex(impacts[e + 1].impact_type)

(***************************************************************************)
(* The summary                                                             *)
(***************************************************************************)
\* the emitted impact with the largest score, the first of them among equals
MainImpact(impacts) ==
    impacts[CHOOSE i \in DOMAIN impacts :
                /\ \A j \in DOMAIN impacts :
                      ~RatLess(impacts[i].impact_score, impacts[j].impact_score)
                /\ \A j \in 1..(i - 1) :
                      RatLess(impacts[j].impact_score, impacts[i].impact_score)]

ThemePart(a) ==
    " Primary regulatory theme: " \o a.regulatory_themes[1].theme
        \o " (mentioned " \o Str(a.regulatory_themes[1].frequency) \o " times)"

ImpactPart(a) ==
    " Main impact area: " \o MainImpact(a.impact_assessments).impact_type
        \o " (mentioned in "
        \o Str(MainImpact(a.impact_assessments).mention_count) \o " comments)"

ConcernPart(a) ==
    " Common concerns identified: "
        \o Str(Cardinality({ a.stakeholder_concerns.common[i] :
                               i \in DOMAIN a.stakeholder_concerns.common }))
        \o " distinct issues"

\* C27: the summary begins with 'Analysis of <N> public comments reveals:',
\* N the number of comments supplied, followed by the sentiment label; it
\* names the highest-relevance theme exactly when the theme list is not
\* empty, the impact category of maximal score (the first among ties)
\* exactly when the impact list is not empty, and the number of distinct
\* common concerns exactly when that bucket is not empty; the parts are
\* joined by a single space
C27_SummaryTemplate ==
    \A r \in DOMAIN analysis :
        LET a == analysis[r]
        IN /\ StartsWith(a.summary,
                         "Analysis of " \o Str(Len(comments))
                            \o " public comments reveals: Overall sentiment: "
                            \o a.sentiment_summary)
           /\ Contains(a.summary, "Primary regulatory theme:")
                <=> a.regulatory_themes # <<>>
           /\ a.regulatory_themes # <<>> => Contains(a.summary, ThemePart(a))
           /\ Contains(a.summary, "Main impact area:")
                <=> a.impact_assessments # <<>>
           /\ a.impact_assessments # <<>> => Contains(a.summary, ImpactPart(a))
           /\ Contains(a.summary, "Common concerns identified:")
                <=> a.stakeholder_concerns.common # <<>>
           /\ a.stakeholder_concerns.common # <<>>
                => Contains(a.summary, ConcernPart(a))
           /\ ~Contains(a.summary, "  ")
           /\ a.summary
                = "Analysis of " \o Str(Len(comments))
                    \o " public comments reveals: Overall sentiment: "
                    \o a.sentiment_summary
                    \o " Common perspectives: " \o Join(a.common_perspectives, "; ")
                    \o (IF a.regulatory_themes # <<>> THEN ThemePart(a) ELSE "")
                    \o (IF a.impact_assessments # <<>> THEN ImpactPart(a) ELSE "")
                    \o (IF a.stakeholder_concerns.common # <<>>
                        THEN ConcernPart(a) ELSE "")

\* three impact categories with the same score: the first of the table is
\* named
C27_Witness ==
    /\ Len(analysis) = 1
    /\ Len(comments) = 2
    /\ comments[1].comment_text = ""
    /\ analysis[1].summary
         = "Analysis of 2 public comments reveals: Overall sentiment: Predominantly positive sentiment Common perspectives: Generally supportive of the proposed regulation; Many comments provide constructive suggestions for improvement Primary regulatory theme: compliance_burden (mentioned 1 times) Main impact area: industry_impact (mentioned in 1 comments) Common concerns identified: 1 distinct issues"

(***************************************************************************)
(* A pipeline that raises                                                  *)
(***************************************************************************)

\* the last call was analyze_regulatory_comments, the comments were fetched
\* and the analysis pipeline raised on them
PipelineRaised ==
    /\ tool_name = "analyze_regulatory_comments"
    /\ Bound
    /\ LET raising(fetched) == ~fetched.raised /\ PipelineRaises(fetched.value)
       IN raising(fetch_comments_by_document_id(service, parameters.document_id,
                                                Get(parameters, "max_comments", 30)))

\* C28: when the analysis pipeline raises while analyze_regulatory_comments
\* runs, the tool returns a {success: false, error} envelope, for every
\* analysis_depth.
C28_PipelineErrorSurfaced ==
    PipelineRaised
    => /\ tool_result.success = FALSE
       /\ "error" \in DOMAIN tool_result

\* advanced and comprehensive depth do surface the error
PipelineErrorSurfacedAboveBasic ==
    (PipelineRaised /\ Get(parameters, "analysis_depth", "advanced") # "basic")
    => /\ tool_result.success = FALSE
       /\ tool_result.error = "sequence item 0: expected str instance, int found"

(***************************************************************************)
(* Failure envelopes in a tool chain                                       *)
(***************************************************************************)

\* the three tools that take the result of an earlier step
LaterSteps ==
    {"synthesize_comment_insights", "identify_regulatory_themes",
     "assess_stakeholder_concerns"}

\* the last call was a later step that bound its analysis_results argument
LaterStepCalled == tool_name \in LaterSteps /\ Bound

\* the success field of the argument is false or absent
FailedOrAbsent(analysis_results) ==
    \/ "success" \notin DOMAIN analysis_results
    \/ analysis_results.success = FALSE

\* C29: synthesize_comment_insights, identify_regulatory_themes and
\* assess_stakeholder_concerns return their analysis_results argument
\* unchanged whenever its success field is false or absent, and send no
\* request; so a failure envelope is never turned into success: true.
C29_FailureEnvelopePassesThrough ==
    (LaterStepCalled /\ FailedOrAbsent(parameters.analysis_results))
    => /\ tool_result = parameters.analysis_results
       /\ Get(tool_result, "success", FALSE) = FALSE
       /\ requests = <<>>

\* the analysis failed on a refused comments request and its envelope came
\* back unmodified from the step that followed
C29_Witness ==
    /\ clock = 2
    /\ tool_name = "identify_regulatory_themes"
    /\ parameters = [analysis_results |-> tool_result]
    /\ DOMAIN tool_result = {"success", "error", "document_id"}
    /\ tool_result.success = FALSE
    /\ tool_result.document_id = "DOC-1"
    /\ tool_result.error # ""

(***************************************************************************)
(* The order of the parser's stages                                        *)
(***************************************************************************)

\* the reply holds a JSON fence marker and a closing fence after it
ClosedBlock == JsonFences # {} /\ ClosingFences # {}

\* the Error outcome: the 0.3 shape with the decoder's message
ErrorOutcome(loaded) ==
    /\ "parse_error" \in DOMAIN parsed[1].value
    /\ parsed[1].value.parse_error = loaded.error
    /\ parsed[1].value.confidence_score = 30
    /\ parsed[1].value.raw_response = raw_response

\* the outcome of a stage that handed a text to the JSON decoder
DecodedOutcome(loaded) ==
    IF loaded.raised THEN ErrorOutcome(loaded)
    ELSE parsed[1].value = loaded.value

\* the Degraded outcome: the 0.5 shape with the reply, cut at 500
\* characters, as its summary
DegradedOutcome ==
    /\ "parse_error" \notin DOMAIN parsed[1].value
    /\ parsed[1].value.confidence_score = 50
    /\ parsed[1].value.raw_response = raw_response
    /\ parsed[1].value.summary =
          IF Len(raw_response) <= 500 THEN raw_response
          ELSE SubSeq(raw_response, 1, 500) \o "..."

\* the stages in their order, with block telling whether the Strict stage
\* has a block to take
StagesInOrder(block) ==
    parsed # <<>>
    => /\ ~parsed[1].raised
       /\ IF block THEN DecodedOutcome(json_loads(BlockText))
          ELSE IF StartsWith(Strip(raw_response), "{")
          THEN DecodedOutcome(json_loads(raw_response))
          ELSE DegradedOutcome

\* C30: the parser tries its stages in a fixed order and every reply ends
\* in exactly one outcome.  A closed JSON block always goes before the Bare
\* stage, and malformed contents of it give the Error outcome; a JSON fence
\* marker without a closing fence is ignored, and the reply is taken bare
\* when, trimmed, it starts with "{", and degraded otherwise; the degraded
\* summary is the reply when it has at most 500 characters and else its
\* first 500 characters followed by "...".
C30_ClosedBlockBeforeBare == StagesInOrder(ClosedBlock)

\* the same order holds when only a block with text before its closing
\* fence counts as closed
StagesInOrderOfUsableBlock == StagesInOrder(UsableBlock)

=============================================================================
